---- MODULE Spec2Model ----
(***************************************************************************)
(* A model of the concurrency and reliability engine of the LLM gateway:   *)
(* the failover manager with the health checker and the manual routes,     *)
(* the Redis queue with its in-memory secondary and background sync, the   *)
(* queue processor with its token bucket, the API key manager and the      *)
(* provider adapters' key loop.                                            *)
(***************************************************************************)
EXTENDS Integers, Sequences, FiniteSets, TLC

VARIABLES
    \* ---- services/failover_manager.py : FailoverManager ----
    current_provider,    \* self.current_provider
    in_failover_mode,    \* self.in_failover_mode
    provider_statuses,   \* self.provider_statuses : provider -> [available, last_check]
    failure_counts,      \* self.failure_counts    : provider -> int
    enable_failover,     \* self.enable_failover (settings.ENABLE_FAILOVER)
    lock,                \* self.lock is held
    gcs_pc,              \* position of the get_current_service call that holds the lock
    clock,               \* time.time() as read by the manager and the checker
    \* ---- services/health_checker.py : HealthChecker ----
    hc_pc,               \* 0: no health checker; i: the start-up sweep probes provider i next; past the end: _check_loop
    hc_probe,            \* provider whose probe _check_loop awaits, or NoProvider
    \* ---- history of the failover manager's calls ----
    fmOp,                \* the last completed operation and its outcome; for get_current_service
                         \* also the provider whose service it returned
    watched,             \* the provider whose report_failure calls are counted below
    consec_calls,        \* report_failure(watched) calls returned since its last success / probe pass
    consec_counted,      \* those that took the lock, since its last success / probe pass / reset
    \* ---- services/queue/redis_queue.py : RedisQueueManager and the Redis server ----
    now,                 \* time.time() as read by the queue, in ticks
    redis_up,            \* the Redis server answers; otherwise every command raises ConnectionError
    redis_queue,         \* the sorted set queue_key: entries [member, score], each with the
                         \* call that put it (via) and the rank of its enqueue (seq)
    redis_responses,     \* the keys response_prefix + id: entries [id, value]
    memory_queue,        \* self.memory_queue: <<>> for None, or <<MemoryQueueManager>>
    background_ping,     \* self.background_ping is a task
    bs_pc,               \* position of the _background_sync task
    sync_queue,          \* the MemoryQueueManager _background_sync drains (its local memory_queue)
    sync_item,           \* the item _background_sync is writing back: <<>> or <<entry>>
    \* ---- history of the queue's calls ----
    issued,              \* request ids generated so far
    held,                \* entries dequeue has returned and that were not put back
    qOp,                 \* the last completed queue call, its routing and its result
    \* ---- services/processor.py ----
    tasks,               \* the process_queue_item_with_timeout tasks that have not ended
    stores,              \* request id -> number of envelopes the tasks have written for it
    \* ---- core/rate_limiter.py : TokenBucketRateLimiter, and the loop of process_queue ----
    time,                \* time.time() as read by the limiter, the key manager and the adapters, in ticks
    tokens,              \* self.tokens, in fractions 1 / TicksPerSec of a token
    last_refill,         \* self.last_refill
    pq_pc,               \* position of process_queue: before wait_for_token, or before dequeue
    dispatches,          \* the times of the create_task calls of the last second
    \* ---- utils/api_key_manager.py : APIKeyManager ----
    key_timestamps,      \* self.key_timestamps : provider -> key -> list of times
    current_key_index,   \* self.current_key_index : provider -> index, from 1
    key_usage,           \* self.key_usage : provider -> key -> [last_used, count]
    key_op,              \* the last cycle of get_next_key: its provider and the key it returned,
                         \* or NoKey when it found every key at its limit
    returned,            \* provider -> key -> the times of the last second get_next_key returned it at
    \* ---- services/llm/grok_api.py, openai_api.py : call_api, and the backends ----
    answers,             \* what the provider answers to a call with a key
    call,                \* the call_api in progress, or its outcome; limited: the key whose
                         \* rate limit the next request is the retry of
    \* ---- the failover manager with several backups: what its rotation reads and writes ----
    rotation,            \* [st, cur, mode] as provider_statuses, current_provider and
                         \* in_failover_mode, and ran: the last step ran the rotation
    \* ---- core/rate_limiter.py : a wait_for_token(max_wait_time) call of its own ----
    wft,                 \* its position, its start_time and max_wait_time, and what it did
    \* ---- main.py : lifespan ----
    lifespan,            \* its position and the services it has started
    \* ---- services/failover_manager.py : a call that waits for self.lock ----
    lockwait             \* the call that waits, for how long, and how long the lock has been held

fmVars == <<current_provider, in_failover_mode, provider_statuses, failure_counts,
            enable_failover, lock, gcs_pc, clock, hc_pc, hc_probe,
            fmOp, watched, consec_calls, consec_counted>>

qVars == <<now, redis_up, redis_queue, redis_responses, memory_queue, background_ping,
           bs_pc, sync_queue, sync_item, issued, held, qOp>>

dVars == <<tasks, stores>>

rlVars == <<time, tokens, last_refill, pq_pc, dispatches>>

kmVars == <<key_timestamps, current_key_index, key_usage, key_op, returned, answers, call>>

rVars == <<rotation>>

wVars == <<wft>>

lVars == <<lifespan>>
lwVars == <<lockwait>>

xVars == <<rlVars, kmVars, rVars, wVars, lVars, lwVars>>

vars == <<fmVars, qVars, dVars, xVars>>

-----------------------------------------------------------------------------
(* Configuration (core/setting.py) *)

primary_provider == "grok"
failover_providers == <<"openai">>
\* FAILOVER_THRESHOLD
threshold == 2
\* FAILOVER_RECOVERY_TIME, in clock ticks
recovery_time == 1
\* HEALTH_CHECK_INTERVAL, in clock ticks
check_interval == 1
\* RATE_LIMIT_RPS
RATE_LIMIT_RPS == 3
\* MAX_RETRIES
MAX_RETRIES == 1
\* GROK_API_KEYS and OPENAI_API_KEYS
provider_keys == [grok |-> <<"K1", "K2">>, openai |-> <<"K3">>]
\* providers llm/factory.py can build a service for
SupportedProviders == {"grok", "openai"}

\* REDIS: the priority range of enqueue, and the weight 10**13 of a priority in
\* the composite score, scaled down (a millisecond timestamp stays below it)
MaxPriority == 100
PriorityWeight == 1000
\* int(timestamp * 1000): milliseconds in a second
MsPerSec == 1000

(* Bounds of the model *)
MaxClock == 2
MaxFailures == 3
\* resolution of time.time() below a millisecond, the ticks the queue's clock
\* runs for, and the calls of each kind
TicksPerMs == 2
MaxNow == 4
MaxItems == 3
MaxHex == 2
\* the requests submitted while Redis comes and goes
MaxOutageItems == 2
\* the requests submitted to the processor
MaxRequests == 1
\* resolution of time.time() for the rate limits, and the ticks that clock runs for
TicksPerSec == 3
MaxTime == 5
\* the call_api calls of the processor
MaxCalls == 3
\* the last second the lock's waits are followed to
MaxLockClock == 6
\* cycles of get_next_key in a row that find no key
MaxCycles == 2

NoProvider == "none"

_all_providers == <<primary_provider>> \o failover_providers
Providers == {_all_providers[i] : i \in DOMAIN _all_providers}

Min(a, b) == IF a <= b THEN a ELSE b

-----------------------------------------------------------------------------
(* FailoverManager *)

\* the outcomes a health probe of provider p can have: get_llm_service raises for
\* a provider the factory does not know, and the probe then reports False
HealthResults(p) == IF p \in SupportedProviders THEN BOOLEAN ELSE {FALSE}

\* report_failure / _check_provider_health: the threshold comparison
ThresholdReachedStrict(n) == n > threshold
ThresholdReached(n) == n >= threshold

\* _mark_provider_unavailable
_mark_provider_unavailable(st, p) ==
    [st EXCEPT ![p] = [available |-> FALSE, last_check |-> clock]]

\* _switch_to_next_available_provider: the new (current_provider, in_failover_mode)
LastAvailableBackup(backups, st) ==
    LET idx == {i \in DOMAIN backups : st[backups[i]].available}
    IN  IF idx = {} THEN NoProvider
        ELSE backups[CHOOSE i \in idx : \A j \in idx : i >= j]
FirstAvailableBackup(backups, st) ==
    LET idx == {i \in DOMAIN backups : st[backups[i]].available}
    IN  IF idx = {} THEN NoProvider
        ELSE backups[CHOOSE i \in idx : \A j \in idx : i <= j]

SwitchToNext(primary, backups, st, cur, mode) ==
    IF st[primary].available /\ cur # primary
    THEN [current_provider |-> primary, in_failover_mode |-> FALSE]
    ELSE IF FirstAvailableBackup(backups, st) # NoProvider
         THEN [current_provider |-> FirstAvailableBackup(backups, st), in_failover_mode |-> TRUE]
         ELSE [current_provider |-> primary, in_failover_mode |-> mode]

_switch_to_next_available_provider(st, cur, mode) ==
    SwitchToNext(primary_provider, failover_providers, st, cur, mode)

\* a probe pass on p, a report_success(p): the runs of consecutive failures end
EndRun(p) ==
    /\ consec_calls' = IF p = watched THEN 0 ELSE consec_calls
    /\ consec_counted' = IF p = watched THEN 0 ELSE consec_counted

\* one more report_failure(p) in a run, counted up to the threshold
Longer(run, p) == IF p = watched THEN Min(threshold, run + 1) ELSE run

FMInit ==
    /\ current_provider = primary_provider
    /\ in_failover_mode = FALSE
    /\ provider_statuses = [p \in Providers |-> [available |-> TRUE, last_check |-> 0]]
    /\ failure_counts = [p \in Providers |-> 0]
    /\ enable_failover \in BOOLEAN
    /\ lock = FALSE
    /\ gcs_pc = "idle"
    /\ clock = 0
    /\ hc_pc \in {0, 1}
    /\ hc_probe = NoProvider
    /\ fmOp = [op |-> "init", provider |-> NoProvider, outcome |-> "none"]
    /\ watched \in Providers
    /\ consec_calls = 0
    /\ consec_counted = 0

\* time passes
Tick ==
    /\ clock < MaxClock
    /\ clock' = clock + 1
    /\ UNCHANGED <<current_provider, in_failover_mode, provider_statuses, failure_counts,
                   enable_failover, watched, lock, gcs_pc, hc_pc, hc_probe, fmOp,
                   consec_calls, consec_counted>>

\* _get_service_without_lock: the provider whose service it returns, that of
\* current_provider unless the factory cannot build it
_get_service_without_lock ==
    IF current_provider \in SupportedProviders THEN current_provider
    ELSE IF primary_provider \in SupportedProviders THEN primary_provider
    ELSE IF primary_provider = "openai" THEN "grok" ELSE "openai"

\* get_current_service, lock acquired: with no recovery probe due it returns the
\* service of current_provider at once; otherwise _check_provider_recovery starts
\* its health_check and the call is suspended with the lock held
RecoveryDueLate ==
    /\ in_failover_mode
    /\ clock - provider_statuses[primary_provider].last_check > 2 * recovery_time
    /\ ~provider_statuses[primary_provider].available
RecoveryDue ==
    /\ in_failover_mode
    /\ clock - provider_statuses[primary_provider].last_check > recovery_time
    /\ ~provider_statuses[primary_provider].available

GetCurrentService ==
    /\ ~lock
    /\ IF RecoveryDue
       THEN /\ lock' = TRUE
            /\ gcs_pc' = "probing"
            /\ fmOp' = [op |-> "get_current_service", provider |-> NoProvider,
                        outcome |-> "probe_started", service |-> NoProvider]
       ELSE /\ UNCHANGED <<lock, gcs_pc>>
            /\ fmOp' = [op |-> "get_current_service", provider |-> NoProvider,
                        outcome |-> "returned", service |-> current_provider]
    /\ UNCHANGED <<current_provider, in_failover_mode, provider_statuses, failure_counts,
                   enable_failover, watched, clock, hc_pc, hc_probe, consec_calls, consec_counted>>

\* _check_provider_recovery(primary) after its health_check returned is_healthy;
\* get_current_service then releases the lock
RecoveryProbeDone(is_healthy) ==
    /\ gcs_pc = "probing"
    /\ IF is_healthy
       THEN /\ provider_statuses' = [provider_statuses EXCEPT
                    ![primary_provider] = [available |-> TRUE, last_check |-> clock]]
            /\ failure_counts' = [failure_counts EXCEPT ![primary_provider] = 0]
            /\ IF in_failover_mode
               THEN current_provider' = primary_provider /\ in_failover_mode' = FALSE
               ELSE UNCHANGED <<current_provider, in_failover_mode>>
            /\ EndRun(primary_provider)
       ELSE /\ provider_statuses' = [provider_statuses EXCEPT ![primary_provider].last_check = clock]
            /\ UNCHANGED <<failure_counts, current_provider, in_failover_mode,
                           consec_calls, consec_counted>>
    /\ lock' = FALSE
    /\ gcs_pc' = "idle"
    /\ fmOp' = [op |-> "get_current_service", provider |-> NoProvider,
                outcome |-> IF is_healthy THEN "probe_passed" ELSE "probe_failed",
                service |-> current_provider']
    /\ UNCHANGED <<enable_failover, watched, clock, hc_pc, hc_probe>>

\* a timeout that ends the call with the lock still held
RecoveryProbeTimeoutKeepsLock ==
    /\ gcs_pc = "probing"
    /\ provider_statuses' = [provider_statuses EXCEPT ![primary_provider].last_check = clock]
    /\ gcs_pc' = "idle"
    /\ fmOp' = [op |-> "get_current_service", provider |-> NoProvider, outcome |-> "timeout",
                service |-> _get_service_without_lock]
    /\ UNCHANGED <<current_provider, in_failover_mode, failure_counts, enable_failover, watched,
                   lock, clock, hc_pc, hc_probe, consec_calls, consec_counted>>
\* the 3-second asyncio.timeout of get_current_service fires during the probe:
\* the finally clauses record last_check and release the lock
RecoveryProbeTimeout ==
    /\ gcs_pc = "probing"
    /\ provider_statuses' = [provider_statuses EXCEPT ![primary_provider].last_check = clock]
    /\ lock' = FALSE
    /\ gcs_pc' = "idle"
    /\ fmOp' = [op |-> "get_current_service", provider |-> NoProvider, outcome |-> "timeout",
                service |-> _get_service_without_lock]
    /\ UNCHANGED <<current_provider, in_failover_mode, failure_counts, enable_failover, watched,
                   clock, hc_pc, hc_probe, consec_calls, consec_counted>>

\* the task that called get_current_service is cancelled during the probe (the
\* 30 seconds of process_queue_item_with_timeout are over): CancelledError
\* passes the except clauses, the finally clauses record last_check and release
\* the lock, and no service is returned
RecoveryProbeCancelled ==
    /\ gcs_pc = "probing"
    /\ provider_statuses' = [provider_statuses EXCEPT ![primary_provider].last_check = clock]
    /\ lock' = FALSE
    /\ gcs_pc' = "idle"
    /\ fmOp' = [op |-> "get_current_service", provider |-> NoProvider, outcome |-> "cancelled",
                service |-> NoProvider]
    /\ UNCHANGED <<current_provider, in_failover_mode, failure_counts, enable_failover, watched,
                   clock, hc_pc, hc_probe, consec_calls, consec_counted>>

\* a lock timeout that records a check of the primary all the same
GetCurrentServiceLockTimeoutChecked ==
    /\ lock
    /\ fmOp' = [op |-> "get_current_service", provider |-> NoProvider,
                outcome |-> "lock_timeout", service |-> _get_service_without_lock]
    /\ provider_statuses' = [provider_statuses EXCEPT ![primary_provider].last_check = clock]
    /\ UNCHANGED <<current_provider, in_failover_mode, failure_counts,
                   enable_failover, watched, lock, gcs_pc, clock, hc_pc, hc_probe,
                   consec_calls, consec_counted>>
\* get_current_service of another task while the lock is held: wait_for gives up
\* and _get_service_without_lock returns the service of current_provider
GetCurrentServiceLockTimeout ==
    /\ lock
    /\ fmOp' = [op |-> "get_current_service", provider |-> NoProvider,
                outcome |-> "lock_timeout", service |-> _get_service_without_lock]
    /\ UNCHANGED <<current_provider, in_failover_mode, provider_statuses, failure_counts,
                   enable_failover, watched, lock, gcs_pc, clock, hc_pc, hc_probe,
                   consec_calls, consec_counted>>

\* report_failure(provider)
ReportFailure(p) ==
    /\ failure_counts[p] < MaxFailures
    /\ IF ~enable_failover
       THEN /\ fmOp' = [op |-> "report_failure", provider |-> p, outcome |-> "disabled"]
            /\ UNCHANGED <<current_provider, in_failover_mode, provider_statuses,
                           failure_counts, consec_calls, consec_counted>>
       ELSE IF lock
       THEN \* the lock is not obtained within 1 second: the report is dropped
            /\ fmOp' = [op |-> "report_failure", provider |-> p, outcome |-> "lock_timeout"]
            /\ consec_calls' = Longer(consec_calls, p)
            /\ UNCHANGED <<current_provider, in_failover_mode, provider_statuses,
                           failure_counts, consec_counted>>
       ELSE LET n == failure_counts[p] + 1
                st == IF ThresholdReached(n)
                      THEN _mark_provider_unavailable(provider_statuses, p)
                      ELSE provider_statuses
                sw == IF ThresholdReached(n) /\ p = current_provider
                      THEN _switch_to_next_available_provider(st, current_provider, in_failover_mode)
                      ELSE [current_provider |-> current_provider, in_failover_mode |-> in_failover_mode]
            IN  /\ failure_counts' = [failure_counts EXCEPT ![p] = n]
                /\ provider_statuses' = st
                /\ current_provider' = sw.current_provider
                /\ in_failover_mode' = sw.in_failover_mode
                /\ fmOp' = [op |-> "report_failure", provider |-> p, outcome |-> "counted"]
                /\ consec_calls' = Longer(consec_calls, p)
                /\ consec_counted' = Longer(consec_counted, p)
    /\ UNCHANGED <<enable_failover, watched, lock, gcs_pc, clock, hc_pc, hc_probe>>

\* report_success(provider): async with self.lock waits for the lock
ReportSuccess(p) ==
    /\ ~lock
    /\ failure_counts' = [failure_counts EXCEPT ![p] = 0]
    /\ provider_statuses' = [provider_statuses EXCEPT ![p].available = TRUE]
    /\ IF ~provider_statuses[p].available /\ p = primary_provider
          /\ current_provider # primary_provider
       THEN current_provider' = primary_provider /\ in_failover_mode' = FALSE
       ELSE UNCHANGED <<current_provider, in_failover_mode>>
    /\ EndRun(p)
    /\ fmOp' = [op |-> "report_success", provider |-> p, outcome |-> "done"]
    /\ UNCHANGED <<enable_failover, watched, lock, gcs_pc, clock, hc_pc, hc_probe>>

-----------------------------------------------------------------------------
(* services/failover_manager.py: the waits for self.lock, second by second.
   get_current_service holds the lock across the health_check of
   _check_provider_recovery; a call that arrives meanwhile waits *)

\* line 72: wait_for(self.lock.acquire(), 2.0) of get_current_service
GcsLockTimeout == 2
\* line 149: wait_for(self.lock.acquire(), 1.0) of report_failure
ReportFailureLockTimeout == 1
\* line 69: asyncio.timeout(3.0) around get_current_service
GcsTimeout == 3

LockOps == {"get_current_service", "report_failure", "report_success"}

\* no call waits and the lock is free
LWInit == lockwait = [op |-> "none", provider |-> NoProvider, waited |-> 0, held_for |-> 0]

NoWaiter == [lockwait EXCEPT !.op = "none", !.provider = NoProvider, !.waited = 0]

\* the deadline of the acquire of op: <<>> where the source sets none
\* (async with self.lock of report_success, line 185)
AcquireDeadline(op) ==
    IF op = "get_current_service" THEN <<GcsLockTimeout>>
    ELSE IF op = "report_failure" THEN <<ReportFailureLockTimeout>>
    ELSE <<>>

\* get_current_service takes the free lock (and starts the probe when one is due)
LockTaken ==
    /\ lockwait.op = "none"
    /\ GetCurrentService
    /\ lockwait' = [lockwait EXCEPT !.held_for = 0]

\* op(provider) is called while the lock is held: it waits in acquire
LockWaitStarts(op, p) ==
    /\ lock
    /\ lockwait.op = "none"
    /\ op = "report_failure" => (enable_failover /\ failure_counts[p] < MaxFailures)
    /\ lockwait' = [lockwait EXCEPT !.op = op, !.provider = p, !.waited = 0]
    /\ UNCHANGED fmVars

\* a second passes with the lock held; no wait_for and no asyncio.timeout is
\* overdue after it
LockSecond ==
    /\ lock
    /\ clock < MaxLockClock
    /\ lockwait.held_for < GcsTimeout
    /\ AcquireDeadline(lockwait.op) # <<>> => lockwait.waited < AcquireDeadline(lockwait.op)[1]
    /\ clock' = clock + 1
    /\ lockwait' = [lockwait EXCEPT !.held_for = @ + 1,
                                    !.waited = IF lockwait.op = "none" THEN 0 ELSE @ + 1]
    /\ UNCHANGED <<current_provider, in_failover_mode, provider_statuses, failure_counts,
                   enable_failover, watched, lock, gcs_pc, hc_pc, hc_probe, fmOp,
                   consec_calls, consec_counted>>

\* wait_for gives up: get_current_service returns _get_service_without_lock,
\* report_failure returns without counting
LockWaitTimeout ==
    /\ lock
    /\ AcquireDeadline(lockwait.op) # <<>>
    /\ lockwait.waited = AcquireDeadline(lockwait.op)[1]
    /\ IF lockwait.op = "get_current_service"
       THEN GetCurrentServiceLockTimeout
       ELSE ReportFailure(lockwait.provider)
    /\ lockwait' = NoWaiter

\* the probe returns, or the 3 seconds of get_current_service are over, or its
\* task is cancelled: the lock is released, the call that waits is still
\* suspended
LockReleased ==
    /\ \/ lockwait.held_for < GcsTimeout /\ \E h \in BOOLEAN : RecoveryProbeDone(h)
       \/ lockwait.held_for = GcsTimeout /\ RecoveryProbeTimeout
       \/ lockwait.held_for < GcsTimeout /\ RecoveryProbeCancelled
    /\ UNCHANGED lockwait

\* the call that waited obtains the lock and runs
LockWaitEnds ==
    /\ ~lock
    /\ lockwait.op \in LockOps
    /\ IF lockwait.op = "get_current_service" THEN GetCurrentService
       ELSE IF lockwait.op = "report_failure" THEN ReportFailure(lockwait.provider)
       ELSE ReportSuccess(lockwait.provider)
    /\ lockwait' = [NoWaiter EXCEPT !.held_for = 0]

\* calls that find the lock free, and time passing with the lock free
LockFree ==
    /\ ~lock
    /\ lockwait.op = "none"
    /\ \/ Tick
       \/ \E p \in Providers : ReportFailure(p)
       \/ \E p \in Providers : ReportSuccess(p)
    /\ UNCHANGED lockwait

-----------------------------------------------------------------------------
(* HealthChecker *)

\* initial_health_check: the probe of the next provider of the sweep returned
\* is_healthy; after the last provider, rotate when the primary is down
InitialHealthCheck(is_healthy) ==
    /\ hc_pc \in DOMAIN _all_providers
    /\ LET p == _all_providers[hc_pc]
           st == [provider_statuses EXCEPT ![p] = [available |-> is_healthy, last_check |-> clock]]
           sw == IF hc_pc = Len(_all_providers) /\ ~st[primary_provider].available
                 THEN _switch_to_next_available_provider(st, current_provider, in_failover_mode)
                 ELSE [current_provider |-> current_provider, in_failover_mode |-> in_failover_mode]
       IN  /\ is_healthy \in HealthResults(p)
           /\ ~is_healthy => failure_counts[p] < MaxFailures
           /\ provider_statuses' = st
           /\ failure_counts' = [failure_counts EXCEPT ![p] = IF is_healthy THEN 0 ELSE @ + 1]
           /\ current_provider' = sw.current_provider
           /\ in_failover_mode' = sw.in_failover_mode
           /\ IF is_healthy THEN EndRun(p) ELSE UNCHANGED <<consec_calls, consec_counted>>
           /\ fmOp' = [op |-> "initial_health_check", provider |-> p, outcome |-> IF is_healthy THEN "probe_passed" ELSE "probe_failed"]
    /\ hc_pc' = hc_pc + 1
    /\ UNCHANGED <<enable_failover, watched, lock, gcs_pc, clock, hc_probe>>

\* _check_loop: a provider that is unavailable or was not checked for
\* check_interval is probed; the loop is suspended in the probe
CheckLoopProbe(p) ==
    /\ hc_pc > Len(_all_providers)
    /\ hc_probe = NoProvider
    /\ \/ ~provider_statuses[p].available
       \/ clock - provider_statuses[p].last_check > check_interval
    /\ hc_probe' = p
    /\ UNCHANGED <<current_provider, in_failover_mode, provider_statuses, failure_counts,
                   enable_failover, watched, lock, gcs_pc, clock, hc_pc, fmOp,
                   consec_calls, consec_counted>>

\* _check_provider_health after the probe returned is_healthy
_check_provider_health(is_healthy) ==
    /\ hc_probe # NoProvider
    /\ is_healthy \in HealthResults(hc_probe)
    /\ LET p == hc_probe
           was == provider_statuses[p].available
           n == failure_counts[p] + 1
           down == ~is_healthy /\ was /\ n >= threshold
           st == [provider_statuses EXCEPT ![p] =
                     [available |-> IF is_healthy THEN TRUE ELSE IF down THEN FALSE ELSE was,
                      last_check |-> clock]]
           sw == IF down /\ p = current_provider
                 THEN _switch_to_next_available_provider(st, current_provider, in_failover_mode)
                 ELSE [current_provider |-> current_provider, in_failover_mode |-> in_failover_mode]
       IN  /\ (~is_healthy /\ was) => failure_counts[p] < MaxFailures
           /\ provider_statuses' = st
           /\ failure_counts' = [failure_counts EXCEPT ![p] =
                                    IF is_healthy THEN (IF was THEN @ ELSE 0)
                                    ELSE (IF was THEN n ELSE @)]
           /\ current_provider' = sw.current_provider
           /\ in_failover_mode' = sw.in_failover_mode
           /\ IF is_healthy THEN EndRun(p) ELSE UNCHANGED <<consec_calls, consec_counted>>
           /\ fmOp' = [op |-> "_check_provider_health", provider |-> p, outcome |-> IF is_healthy THEN "probe_passed" ELSE "probe_failed"]
    /\ hc_probe' = NoProvider
    /\ UNCHANGED <<enable_failover, watched, lock, gcs_pc, clock, hc_pc>>

-----------------------------------------------------------------------------
(* api/routes.py: the manual operations, which take no lock *)

\* main.py lifespan: requests are served once health_checker.start() returned
Serving == hc_pc \notin DOMAIN _all_providers

\* the HTTP status codes the routes answer with
Success == 200
BadRequest == 400
InternalError == 500

\* the provider names a caller may put in the path: the configured ones and
\* one that is not configured
RouteInputs == Providers \cup {"claude"}

\* the status of a route whose try block raised HTTPException(status):
\* HTTPException is an Exception, so "except Exception as e" catches it and
\* raises HTTPException(status_code=500) in its place
ExceptException(status) == InternalError

\* a switch that also marks the provider available
force_failover_marks(p) ==
    /\ Serving
    /\ IF p \notin Providers
       THEN /\ fmOp' = [op |-> "force_failover", provider |-> p, outcome |-> "rejected",
                        status |-> ExceptException(BadRequest)]
            /\ UNCHANGED <<current_provider, in_failover_mode, provider_statuses>>
       ELSE /\ current_provider' = p
            /\ in_failover_mode' = (p # primary_provider)
            /\ provider_statuses' = [provider_statuses EXCEPT ![p].available = TRUE]
            /\ fmOp' = [op |-> "force_failover", provider |-> p, outcome |-> "done",
                        status |-> Success]
    /\ UNCHANGED <<failure_counts, enable_failover, watched, lock, gcs_pc,
                   clock, hc_pc, hc_probe, consec_calls, consec_counted>>
\* POST /system/force-failover/{provider}
force_failover(p) ==
    /\ Serving
    /\ IF p \notin Providers
       THEN /\ fmOp' = [op |-> "force_failover", provider |-> p, outcome |-> "rejected",
                        status |-> ExceptException(BadRequest)]
            /\ UNCHANGED <<current_provider, in_failover_mode>>
       ELSE /\ current_provider' = p
            /\ in_failover_mode' = (p # primary_provider)
            /\ fmOp' = [op |-> "force_failover", provider |-> p, outcome |-> "done",
                        status |-> Success]
    /\ UNCHANGED <<provider_statuses, failure_counts, enable_failover, watched, lock, gcs_pc,
                   clock, hc_pc, hc_probe, consec_calls, consec_counted>>

\* a reset that marks the provider available and leaves its failure count
reset_provider_status_marks(p) ==
    /\ Serving
    /\ IF p \notin Providers
       THEN /\ fmOp' = [op |-> "reset_provider_status", provider |-> p, outcome |-> "rejected",
                        status |-> ExceptException(BadRequest)]
            /\ UNCHANGED <<provider_statuses, failure_counts, consec_counted>>
       ELSE /\ provider_statuses' = [provider_statuses EXCEPT ![p].available = TRUE]
            /\ consec_counted' = IF p = watched THEN 0 ELSE consec_counted
            /\ fmOp' = [op |-> "reset_provider_status", provider |-> p, outcome |-> "done",
                        status |-> Success]
            /\ UNCHANGED failure_counts
    /\ UNCHANGED <<current_provider, in_failover_mode, enable_failover, watched, lock, gcs_pc,
                   clock, hc_pc, hc_probe, consec_calls>>
\* POST /system/reset-provider/{provider}
reset_provider_status(p) ==
    /\ Serving
    /\ IF p \notin Providers
       THEN /\ fmOp' = [op |-> "reset_provider_status", provider |-> p, outcome |-> "rejected",
                        status |-> ExceptException(BadRequest)]
            /\ UNCHANGED <<provider_statuses, failure_counts, consec_counted>>
       ELSE /\ provider_statuses' = [provider_statuses EXCEPT ![p].available = TRUE]
            /\ failure_counts' = [failure_counts EXCEPT ![p] = 0]
            /\ consec_counted' = IF p = watched THEN 0 ELSE consec_counted
            /\ fmOp' = [op |-> "reset_provider_status", provider |-> p, outcome |-> "done",
                        status |-> Success]
    /\ UNCHANGED <<current_provider, in_failover_mode, enable_failover, watched, lock, gcs_pc,
                   clock, hc_pc, hc_probe, consec_calls>>

-----------------------------------------------------------------------------
(* RedisQueueManager, MemoryQueueManager and the Redis server *)

\* self.memory_queue is None
NoQueue == <<>>
\* the payload of a request
ChatData == [model |-> "grok-3", messages |-> "chat"]
\* enqueue(request_data, priority=10)
DefaultPriority == 10
\* the priorities callers pass to enqueue
PriorityInputs == {0, DefaultPriority, MaxPriority + 1}
\* the envelopes store_response is given
Envelopes == {[status |-> "completed"], [status |-> "error"]}

Max(a, b) == IF a >= b THEN a ELSE b

\* the first tick of the queue's clock: the epoch is in the past
NowStart == TicksPerMs

\* int(timestamp * 1000)
ts_ms(t) == t \div TicksPerMs

\* a number used as a score, in the unit scores are kept in: one tick of a
\* second, so that a timestamp in seconds is its count of ticks
ScoreOf(n) == n * TicksPerMs * MsPerSec

\* enqueue: priority = max(0, min(100, priority))
ClampPriority(p) == Max(0, Min(MaxPriority, p))

\* enqueue: composite_score = priority * (10**13) + int(timestamp * 1000)
composite_score(priority, t) == ScoreOf(priority * PriorityWeight + ts_ms(t))

\* priority_enqueue: the score is request_item["timestamp"], in seconds
retry_score(item) == item.timestamp

\* _background_sync: score = int(time.time() * 1000) + 10**14
sync_score(t) == ScoreOf(ts_ms(t) + 10 * PriorityWeight)

\* json.dumps / json.loads of a response envelope
json_dumps(x) == <<"json", x>>
json_loads(s) == s[2]

\* the members of the sorted set are the JSON texts of the items, which begin
\* with "id": "req_<ms>_<hex>"; Redis orders equal scores by member text
MemberBefore(a, b) ==
    \/ a.id.ms < b.id.ms
    \/ a.id.ms = b.id.ms /\ a.id.hex < b.id.hex

EntryBefore(e, f) ==
    \/ e.score < f.score
    \/ e.score = f.score /\ MemberBefore(e.member, f.member)

\* ZADD key {member: score}: the set after it, and the number of members added
ZAdd(zset, entry) == {e \in zset : e.member # entry.member} \cup {entry}
ZAdded(zset, entry) == IF \E e \in zset : e.member = entry.member THEN 0 ELSE 1

\* ZPOPMIN key: the entry it removes
ZMin(zset) == CHOOSE e \in zset : \A f \in zset : f = e \/ EntryBefore(e, f)

\* MemoryQueueManager.enqueue: await self.queue.put(item)
QueuePutNothing(q, entry) == q
QueuePut(q, entry) == Append(q, entry)

\* MemoryQueueManager.priority_enqueue: the item, then the items of the old queue
QueuePutFront(q, entry) == <<entry>> \o q

\* _execute_with_error_handing, last attempt with use_fallback: the queue
\* manager after the switch to the in-memory secondary
FallbackQueue(mq) == IF mq = NoQueue THEN <<[queue |-> <<>>, responses |-> {}]>> ELSE mq
FallbackTask(task, pc) == IF ~task THEN "sleep" ELSE pc

QInit ==
    /\ now = NowStart
    /\ redis_up = TRUE
    /\ redis_queue = {}
    /\ redis_responses = {}
    /\ memory_queue = NoQueue
    /\ background_ping = FALSE
    /\ bs_pc = "none"
    /\ sync_queue = <<>>
    /\ sync_item = <<>>
    /\ issued = {}
    /\ held = {}
    /\ qOp = [op |-> "init", routed |-> "none", result |-> <<>>]

\* time passes
TickQ ==
    /\ now < MaxNow
    /\ now' = now + 1
    /\ UNCHANGED <<redis_up, redis_queue, redis_responses, memory_queue, background_ping,
                   bs_pc, sync_queue, sync_item, issued, held, qOp>>

\* the Redis server becomes unreachable, and reachable again
RedisFails ==
    /\ redis_up
    /\ redis_up' = FALSE
    /\ UNCHANGED <<now, redis_queue, redis_responses, memory_queue, background_ping,
                   bs_pc, sync_queue, sync_item, issued, held, qOp>>

RedisRecovers ==
    /\ ~redis_up
    /\ redis_up' = TRUE
    /\ UNCHANGED <<now, redis_queue, redis_responses, memory_queue, background_ping,
                   bs_pc, sync_queue, sync_item, issued, held, qOp>>

\* where a call goes: the secondary when there is one; Redis when it answers;
\* otherwise the three attempts fail and the call falls back
Route == IF memory_queue # NoQueue THEN "memory"
         ELSE IF redis_up THEN "redis" ELSE "fallback"

\* the fallback of a call that found Redis unreachable
Fallback ==
    /\ background_ping' = TRUE
    /\ bs_pc' = FallbackTask(background_ping, bs_pc)

\* enqueue(request_data, priority): the call returns the request id
Enqueue(priority, hex) ==
    /\ Cardinality(issued) < MaxItems
    /\ LET id == [ms |-> ts_ms(now), hex |-> hex]
           n == Cardinality(issued) + 1
       IN  /\ id \notin issued
           /\ issued' = issued \cup {id}
           /\ qOp' = [op |-> "enqueue", routed |-> Route, result |-> <<id>>]
           /\ IF Route = "redis"
              THEN LET item == [id |-> id, data |-> ChatData, timestamp |-> now,
                                priority |-> ClampPriority(priority)]
                       entry == [member |-> item, score |-> composite_score(item.priority, now),
                                 via |-> "enqueue", seq |-> n]
                   IN  \* the id is new, so ZADD adds a member and the id is returned
                       /\ ZAdded(redis_queue, entry) = 1
                       /\ redis_queue' = ZAdd(redis_queue, entry)
                       /\ UNCHANGED <<memory_queue, background_ping, bs_pc>>
              ELSE \* MemoryQueueManager.enqueue, after the fallback when Redis
                   \* was unreachable: enqueue calls itself again
                   LET item == [id |-> id, data |-> ChatData, timestamp |-> now]
                       \* asked: the priority of the call, which the item does not carry
                       entry == [member |-> item, via |-> "enqueue", seq |-> n,
                                 asked |-> ClampPriority(priority)]
                       mq == FallbackQueue(memory_queue)[1]
                   IN  /\ memory_queue' = <<[mq EXCEPT !.queue = QueuePut(@, entry)]>>
                       /\ IF Route = "fallback" THEN Fallback
                          ELSE UNCHANGED <<background_ping, bs_pc>>
                       /\ UNCHANGED redis_queue
    /\ UNCHANGED <<now, redis_up, redis_responses, sync_queue, sync_item, held>>

\* priority_enqueue(request_item) of an item dequeue returned earlier
PriorityEnqueue(h) ==
    /\ h \in held
    /\ held' = held \ {h}
    /\ qOp' = [op |-> "priority_enqueue", routed |-> Route,
               result |-> <<TRUE>>]
    /\ IF Route = "redis"
       THEN /\ redis_queue' = ZAdd(redis_queue, [member |-> h.member, score |-> retry_score(h.member),
                                                 via |-> "priority_enqueue", seq |-> h.seq])
            /\ UNCHANGED <<memory_queue, background_ping, bs_pc>>
       ELSE LET entry == [member |-> h.member, via |-> "priority_enqueue", seq |-> h.seq]
                mq == FallbackQueue(memory_queue)[1]
            IN  /\ memory_queue' = <<[mq EXCEPT !.queue = QueuePutFront(@, entry)]>>
                /\ IF Route = "fallback" THEN Fallback
                   ELSE UNCHANGED <<background_ping, bs_pc>>
                /\ UNCHANGED redis_queue
    /\ UNCHANGED <<now, redis_up, redis_responses, sync_queue, sync_item, issued>>

\* dequeue(): the item, or None (<<>>) when the queue is empty, when the
\* secondary gives nothing within its second, or when Redis is unreachable
Dequeue ==
    /\ IF Route = "redis"
       THEN IF redis_queue = {}
            THEN /\ qOp' = [op |-> "dequeue", routed |-> Route, result |-> <<>>]
                 /\ UNCHANGED <<redis_queue, held>>
            ELSE LET e == ZMin(redis_queue)
                     h == [member |-> e.member, via |-> e.via, seq |-> e.seq]
                 IN  /\ redis_queue' = redis_queue \ {e}
                     /\ held' = held \cup {h}
                     /\ qOp' = [op |-> "dequeue", routed |-> Route,
                                result |-> <<h>>]
       ELSE UNCHANGED redis_queue
    /\ IF Route = "memory"
       THEN IF memory_queue[1].queue = <<>>
            THEN /\ qOp' = [op |-> "dequeue", routed |-> Route, result |-> <<>>]
                 /\ UNCHANGED <<memory_queue, held>>
            ELSE LET h == Head(memory_queue[1].queue)
                 IN  /\ memory_queue' = <<[memory_queue[1] EXCEPT !.queue = Tail(@)]>>
                     /\ held' = held \cup {h}
                     /\ qOp' = [op |-> "dequeue", routed |-> Route,
                                result |-> <<h>>]
       ELSE IF Route = "fallback"
       THEN /\ memory_queue' = FallbackQueue(memory_queue)
            /\ qOp' = [op |-> "dequeue", routed |-> Route, result |-> <<>>]
            /\ UNCHANGED held
       ELSE UNCHANGED memory_queue
    /\ IF Route = "fallback" THEN Fallback ELSE UNCHANGED <<background_ping, bs_pc>>
    /\ UNCHANGED <<now, redis_up, redis_responses, sync_queue, sync_item, issued>>

\* get_queue_length(): qsize of the secondary, ZCARD, or the False of a fallback
QueueLength ==
    IF Route = "memory" THEN Len(memory_queue[1].queue)
    ELSE IF Route = "redis" THEN Cardinality(redis_queue) ELSE 0

get_queue_length ==
    /\ qOp' = [op |-> "get_queue_length", routed |-> Route, result |-> <<QueueLength>>]
    /\ IF Route = "fallback"
       THEN memory_queue' = FallbackQueue(memory_queue) /\ Fallback
       ELSE UNCHANGED <<memory_queue, background_ping, bs_pc>>
    /\ UNCHANGED <<now, redis_up, redis_queue, redis_responses, sync_queue, sync_item,
                   issued, held>>

\* SETEX key ttl value: the key is set, whatever it held; `first` remembers the
\* value the key was created with
SetEx(responses, id, value) ==
    LET old == {r \in responses : r.id = id}
    IN  (responses \ old) \cup
        {[id |-> id, value |-> value,
          first |-> IF old = {} THEN value ELSE (CHOOSE r \in old : TRUE).first]}

\* GET key, and dict.get: <<>> for nil
Get(responses, id) ==
    LET found == {r \in responses : r.id = id}
    IN  IF found = {} THEN <<>> ELSE <<(CHOOSE r \in found : TRUE).value>>

\* store_response(request_id, response_data): a call that finds Redis
\* unreachable falls back and returns without storing
StoreResponse(id, envelope) ==
    /\ qOp' = [op |-> "store_response", id |-> id, value |-> json_dumps(envelope),
               routed |-> Route, result |-> <<>>]
    /\ IF Route = "redis"
       THEN /\ redis_responses' = SetEx(redis_responses, id, json_dumps(envelope))
            /\ UNCHANGED <<memory_queue, background_ping, bs_pc>>
       ELSE IF Route = "memory"
       THEN /\ memory_queue' = <<[memory_queue[1] EXCEPT
                                    !.responses = SetEx(@, id, json_dumps(envelope))]>>
            /\ UNCHANGED <<redis_responses, background_ping, bs_pc>>
       ELSE /\ memory_queue' = FallbackQueue(memory_queue)
            /\ Fallback
            /\ UNCHANGED redis_responses
    /\ UNCHANGED <<now, redis_up, redis_queue, sync_queue, sync_item, issued, held>>

\* get_response(request_id): the stored text or None; with Redis unreachable
\* the 3-second wait_for may end the call before the fallback (timed_out)
GetResponse(id, timed_out) ==
    /\ qOp' = [op |-> "get_response", id |-> id, routed |-> Route,
               result |-> IF Route = "redis" THEN Get(redis_responses, id)
                          ELSE IF Route = "memory" THEN Get(memory_queue[1].responses, id)
                          ELSE <<>>]
    /\ IF Route = "fallback" /\ ~timed_out
       THEN memory_queue' = FallbackQueue(memory_queue) /\ Fallback
       ELSE UNCHANGED <<memory_queue, background_ping, bs_pc>>
    /\ UNCHANGED <<now, redis_up, redis_queue, redis_responses, sync_queue, sync_item,
                   issued, held>>

\* the TTL of a response key runs out
ResponseExpires(id) ==
    /\ \E r \in redis_responses : r.id = id
    /\ redis_responses' = {r \in redis_responses : r.id # id}
    /\ UNCHANGED <<now, redis_up, redis_queue, memory_queue, background_ping, bs_pc,
                   sync_queue, sync_item, issued, held, qOp>>

\* MemoryQueueManager._cleanup_response after its delay
_cleanup_response(id) ==
    /\ memory_queue # NoQueue
    /\ \E r \in memory_queue[1].responses : r.id = id
    /\ memory_queue' = <<[memory_queue[1] EXCEPT !.responses = {r \in @ : r.id # id}]>>
    /\ UNCHANGED <<now, redis_up, redis_queue, redis_responses, background_ping, bs_pc,
                   sync_queue, sync_item, issued, held, qOp>>

-----------------------------------------------------------------------------
(* RedisQueueManager._background_sync *)

\* the task was created and its first sleep of a second is over
BackgroundSyncStart ==
    /\ bs_pc = "sleep"
    /\ bs_pc' = "loop"
    /\ UNCHANGED <<now, redis_up, redis_queue, redis_responses, memory_queue, background_ping,
                   sync_queue, sync_item, issued, held, qOp>>

\* what the task holds after local.dequeue(): the next item to write back, or
\* nothing after the second the empty queue is waited on
SyncNext(q) ==
    IF q = <<>> THEN [pc |-> "waiting", item |-> <<>>, queue |-> <<>>]
    ELSE [pc |-> "writing", item |-> <<Head(q)>>, queue |-> Tail(q)]

\* top of the loop: the ping fails and the task sleeps, or there is no
\* secondary and it loops, or it takes the secondary, sets self.memory_queue
\* to None and dequeues the first item
BackgroundSyncPing ==
    /\ bs_pc = "loop"
    /\ IF redis_up /\ memory_queue # NoQueue
       THEN /\ memory_queue' = NoQueue
            /\ bs_pc' = SyncNext(memory_queue[1].queue).pc
            /\ sync_item' = SyncNext(memory_queue[1].queue).item
            /\ sync_queue' = SyncNext(memory_queue[1].queue).queue
       ELSE UNCHANGED <<memory_queue, bs_pc, sync_item, sync_queue>>
    /\ UNCHANGED <<now, redis_up, redis_queue, redis_responses, background_ping,
                   issued, held, qOp>>

\* the ZADD of the item in hand: done, and the next item is dequeued; or it
\* raises, the handler sleeps, and the loop starts over without the drained queue
BackgroundSyncWrite ==
    /\ bs_pc = "writing"
    /\ IF redis_up
       THEN /\ redis_queue' = ZAdd(redis_queue, [member |-> sync_item[1].member,
                                                 score |-> sync_score(now),
                                                 via |-> "sync", seq |-> sync_item[1].seq])
            /\ bs_pc' = SyncNext(sync_queue).pc
            /\ sync_item' = SyncNext(sync_queue).item
            /\ sync_queue' = SyncNext(sync_queue).queue
       ELSE /\ bs_pc' = "loop"
            /\ sync_item' = <<>>
            /\ sync_queue' = <<>>
            /\ UNCHANGED redis_queue
    /\ UNCHANGED <<now, redis_up, redis_responses, memory_queue, background_ping,
                   issued, held, qOp>>

\* the drained queue is empty: self.background_ping = None and the task returns
BackgroundSyncFinish ==
    /\ bs_pc = "waiting"
    /\ bs_pc' = "none"
    /\ background_ping' = FALSE
    /\ UNCHANGED <<now, redis_up, redis_queue, redis_responses, memory_queue,
                   sync_queue, sync_item, issued, held, qOp>>

-----------------------------------------------------------------------------
(* services/processor.py: process_queue and process_queue_item *)

\* process_queue_item: max_retries = len(FAILOVER_PROVIDERS.split(",")) + 1
max_retries == Len(failover_providers) + 1

\* request_item.get(key, default), and request_item[key] = value
Field(item, key, default) == IF key \in DOMAIN item THEN item[key] ELSE default
With(item, key, value) ==
    [k \in DOMAIN item \cup {key} |-> IF k = key THEN value ELSE item[k]]

InList(x, list) == \E i \in DOMAIN list : list[i] = x

\* the providers that were not tried and are marked available, in the order of
\* _all_providers
AvailableUntried(tried, st) ==
    SelectSeq(_all_providers, LAMBDA p : ~InList(p, tried) /\ st[p].available)

\* lines 46-62: the provider the attempt uses
AttemptProvider(tried, retry_count, cur, st) ==
    IF InList(cur, tried) /\ retry_count < max_retries /\ AvailableUntried(tried, st) # <<>>
    THEN Head(AvailableUntried(tried, st))
    ELSE cur

\* settings.DEFAULT_MODEL and settings.OPENAI_DEFAULT_MODEL: the default_model of
\* the service of provider p
default_model(p) == IF p = "grok" THEN "grok-2-1212" ELSE "gpt-4.1-2025-04-14"

NoModel == "none"

\* lines 63-75: the model of the request data handed to call_api_with_metrics
RequestModelKept(data, provider, original_provider) == data.model
RequestModel(data, provider, original_provider) ==
    IF "model" \in DOMAIN data /\ provider # original_provider /\ provider \in {"grok", "openai"}
    THEN default_model(provider)
    ELSE data.model

\* the envelopes the processor stores
Response == [status |-> "completed"]
ErrorResponse == [status |-> "error", type |-> "llm_service_error"]
TimeoutErrorResponse == [status |-> "error", type |-> "timeout_error"]

DInit ==
    /\ tasks = {}
    /\ stores = <<>>

\* the entry in the hands of the task of request id
HeldOf(id) == CHOOSE h \in held : h.member.id = id

\* a client submits a request: POST /chat/completions calls enqueue
Submit ==
    /\ Cardinality(issued) < MaxRequests
    /\ Enqueue(DefaultPriority, 0)
    /\ stores' = [id \in issued' |-> IF id \in issued THEN stores[id] ELSE 0]
    /\ UNCHANGED tasks

\* process_queue: dequeue returned an item and a task is created for it
DispatcherDequeue ==
    /\ Dequeue
    /\ tasks' = IF qOp'.result = <<>> THEN tasks
                ELSE tasks \cup {[id |-> qOp'.result[1].member.id,
                                  attempt |-> Field(qOp'.result[1].member, "retry_count", 0),
                                  pc |-> "start", provider |-> NoProvider,
                                  tried |-> <<>>, retry_count |-> 0, envelope |-> <<>>,
                                  model |-> NoModel]}
    /\ UNCHANGED stores

\* process_queue: the 2-second wait_for around dequeue ends the call after
\* ZPOPMIN removed the item: the item is dropped
DispatcherDequeueTimeout ==
    /\ Route = "redis"
    /\ redis_queue # {}
    /\ redis_queue' = redis_queue \ {ZMin(redis_queue)}
    /\ UNCHANGED <<now, redis_up, redis_responses, memory_queue, background_ping, bs_pc,
                   sync_queue, sync_item, issued, held, qOp, tasks, stores>>

\* a task moves on
Becomes(t, u) == tasks' = (tasks \ {t}) \cup {u}
Ends(t) == tasks' = tasks \ {t}

\* process_queue_item, lines 26-81: get_current_service returns the service of
\* current_provider, the provider of the attempt is chosen and recorded, and
\* the task is suspended in call_api_with_metrics
StartAttempt(t) ==
    /\ t.pc = "start"
    /\ ~RecoveryDue
    /\ GetCurrentService
    /\ LET h == HeldOf(t.id)
           tried == Field(h.member, "tried_providers", <<>>)
           retry_count == Field(h.member, "retry_count", 0)
           provider == AttemptProvider(tried, retry_count, current_provider, provider_statuses)
           original_provider == Field(h.member, "original_provider", current_provider)
           item == IF tried = <<>>
                   THEN With(h.member, "original_provider", original_provider)
                   ELSE h.member
       IN  /\ held' = (held \ {h}) \cup {[h EXCEPT !.member = item]}
           /\ Becomes(t, [t EXCEPT !.pc = "calling", !.provider = provider,
                                   !.tried = Append(tried, provider),
                                   !.retry_count = retry_count,
                                   !.model = RequestModel(item.data, provider,
                                                          original_provider)])
    /\ UNCHANGED <<now, redis_up, redis_queue, redis_responses, memory_queue, background_ping,
                   bs_pc, sync_queue, sync_item, issued, qOp, stores>>

\* the API call returned: report_success, then store_response is called
ApiSuccess(t) ==
    /\ t.pc = "calling"
    /\ ReportSuccess(t.provider)
    /\ Becomes(t, [t EXCEPT !.pc = "storing", !.envelope = <<Response>>])
    /\ UNCHANGED <<qVars, stores>>

\* the API call raised: report_failure, then either the item is given the
\* retry count and the tried providers and, after a second, priority_enqueue is
\* called, or store_response is called with the error envelope
ApiFailure(t) ==
    /\ t.pc = "calling"
    /\ ReportFailure(t.provider)
    /\ LET h == HeldOf(t.id)
           counted == IF t.retry_count < max_retries THEN t.retry_count + 1 ELSE t.retry_count
           item == IF t.retry_count < max_retries
                   THEN With(With(h.member, "retry_count", counted), "tried_providers", t.tried)
                   ELSE h.member
           again == /\ t.retry_count < max_retries
                    /\ AvailableUntried(t.tried, provider_statuses') # <<>>
       IN  /\ held' = (held \ {h}) \cup {[h EXCEPT !.member = item]}
           /\ Becomes(t, [t EXCEPT !.retry_count = counted,
                                   !.pc = IF again THEN "requeueing" ELSE "storing",
                                   !.envelope = IF again THEN <<>> ELSE <<ErrorResponse>>])
    /\ UNCHANGED <<now, redis_up, redis_queue, redis_responses, memory_queue, background_ping,
                   bs_pc, sync_queue, sync_item, issued, qOp, stores>>

\* priority_enqueue of the task's item takes effect; through Redis the task is
\* still suspended in the thread's call, otherwise it has returned
RequeueLands(t) ==
    /\ t.pc = "requeueing"
    /\ PriorityEnqueue(HeldOf(t.id))
    /\ IF Route = "redis" THEN Becomes(t, [t EXCEPT !.pc = "requeued"]) ELSE Ends(t)
    /\ UNCHANGED <<fmVars, stores>>

\* store_response of the task's envelope takes effect (a call that falls back
\* stores nothing); through Redis the task is still suspended in the thread's call
StoreLands(t) ==
    /\ t.pc = "storing"
    /\ StoreResponse(t.id, t.envelope[1])
    /\ stores' = [stores EXCEPT ![t.id] = IF Route = "fallback" THEN @ ELSE @ + 1]
    /\ IF Route = "redis" THEN Becomes(t, [t EXCEPT !.pc = "stored"]) ELSE Ends(t)
    /\ UNCHANGED fmVars

\* the call in the thread returns and process_queue_item ends
TaskReturns(t) ==
    /\ t.pc \in {"requeued", "stored"}
    /\ Ends(t)
    /\ UNCHANGED <<fmVars, qVars, stores>>

\* process_queue_item_with_timeout: the 30 seconds are over while the task is
\* suspended; process_queue_item is cancelled where it is
Timeout(t) ==
    /\ t.pc \in {"calling", "requeueing", "requeued", "storing", "stored"}
    /\ Becomes(t, [t EXCEPT !.pc = "timeout", !.envelope = <<TimeoutErrorResponse>>])
    /\ UNCHANGED <<fmVars, qVars, stores>>

\* ... and the timeout envelope is stored
TimeoutStore(t) ==
    /\ t.pc = "timeout"
    /\ StoreResponse(t.id, t.envelope[1])
    /\ stores' = [stores EXCEPT ![t.id] = IF Route = "fallback" THEN @ ELSE @ + 1]
    /\ Ends(t)
    /\ UNCHANGED fmVars

-----------------------------------------------------------------------------
(* core/rate_limiter.py: TokenBucketRateLimiter, and the loop of process_queue
   that it paces *)

\* one token, in the unit of `tokens`
OneToken == TicksPerSec

\* acquire, lines 31-33: the tokens after the refill for the elapsed ticks;
\* elapsed * self.rate tokens are elapsed * RATE_LIMIT_RPS units on this scale
RefillUncapped(tok, elapsed) == tok + elapsed * RATE_LIMIT_RPS
Refill(tok, elapsed) == Min(RATE_LIMIT_RPS * OneToken, tok + elapsed * RATE_LIMIT_RPS)

\* acquire, lines 36-39
Granted(tok) == tok >= OneToken

\* the times of a list that lie at most a second back
Recent(times, t) == SelectSeq(times, LAMBDA ts : t - ts <= TicksPerSec)

\* TokenBucketRateLimiter(settings.RATE_LIMIT_RPS), processor.py line 12
RLInit ==
    /\ time = 0
    /\ tokens = RATE_LIMIT_RPS * OneToken
    /\ last_refill = 0
    /\ pq_pc = "acquire"
    /\ dispatches = <<>>

\* time.time() advances
TickTime ==
    /\ time < MaxTime
    /\ time' = time + 1
    /\ dispatches' = Recent(dispatches, time + 1)
    /\ returned' = [p \in DOMAIN returned |->
                        [k \in DOMAIN returned[p] |-> Recent(returned[p][k], time + 1)]]
    /\ UNCHANGED <<tokens, last_refill, pq_pc, key_timestamps, current_key_index, key_usage, key_op,
                   answers, call>>

\* process_queue, lines 144-153: one acquire of wait_for_token. With a token
\* the loop goes on to dequeue; without one it sleeps and acquires again, in
\* this wait_for_token or, after its deadline, in the next
WaitForToken ==
    /\ pq_pc = "acquire"
    /\ last_refill' = time
    /\ LET filled == Refill(tokens, time - last_refill)
       IN  IF Granted(filled)
           THEN tokens' = filled - OneToken /\ pq_pc' = "dequeue"
           ELSE tokens' = filled /\ pq_pc' = "acquire"
    /\ UNCHANGED <<time, dispatches, kmVars>>

\* process_queue, lines 155-171: dequeue returned an item (got) and the task is
\* created for it, or it returned None or timed out and the loop starts over
Dispatch(got) ==
    /\ pq_pc = "dequeue"
    /\ pq_pc' = "acquire"
    /\ dispatches' = IF got THEN Append(dispatches, time) ELSE dispatches
    /\ UNCHANGED <<time, tokens, last_refill, kmVars>>

-----------------------------------------------------------------------------
(* core/rate_limiter.py: wait_for_token(max_wait_time), statement by statement *)

\* the max_wait_time a caller passes, in ticks: none, and a second
WaitInputs == {0, TicksPerSec}

\* asyncio.sleep(min(1.0 / self.rate, 0.5)), line 61, in ticks
SleepTicks == Max(1, Min(TicksPerSec \div RATE_LIMIT_RPS, TicksPerSec \div 2))

\* line 56: time.time() - start_time > max_wait_time, for two readings of the
\* clock that lie `elapsed` whole ticks apart; later: within its tick the second
\* reading is greater than the first was within its own. Two readings of the
\* same tick differ by nothing or by a fraction of a tick
DeadlinePassed(elapsed, max_wait, later) ==
    \/ elapsed > max_wait
    \/ elapsed = max_wait /\ later

WInit ==
    wft = [pc |-> "idle", start_time |-> 0, max_wait_time |-> 0, had |-> FALSE,
           slept |-> FALSE, wake |-> 0, result |-> "none"]

\* line 52: start_time = time.time()
WaitForTokenCalled(max_wait) ==
    /\ wft.pc \in {"idle", "returned"}
    /\ wft' = [pc |-> "acquire", start_time |-> time, max_wait_time |-> max_wait,
               had |-> FALSE, slept |-> FALSE, wake |-> 0, result |-> "none"]
    /\ UNCHANGED <<rlVars, kmVars>>

\* line 54: await self.acquire(); had: the first acquire of the call found a token
WaitForTokenAcquire ==
    /\ wft.pc = "acquire"
    /\ last_refill' = time
    /\ LET filled == Refill(tokens, time - last_refill)
           first == ~wft.slept
       IN  IF Granted(filled)
           THEN /\ tokens' = filled - OneToken
                /\ wft' = [wft EXCEPT !.pc = "returned", !.result = "true",
                                      !.had = IF first THEN TRUE ELSE @]
           ELSE /\ tokens' = filled
                /\ wft' = [wft EXCEPT !.pc = "deadline"]
    /\ UNCHANGED <<time, pq_pc, dispatches, kmVars>>

\* lines 56-61: past the deadline the call returns False, otherwise it sleeps
WaitForTokenDeadline(later) ==
    /\ wft.pc = "deadline"
    /\ IF DeadlinePassed(time - wft.start_time, wft.max_wait_time, later)
       THEN wft' = [wft EXCEPT !.pc = "returned", !.result = "false"]
       ELSE wft' = [wft EXCEPT !.pc = "sleep", !.slept = TRUE, !.wake = time + SleepTicks]
    /\ UNCHANGED <<rlVars, kmVars>>

\* the sleep is over and the loop acquires again
WaitForTokenWakes ==
    /\ wft.pc = "sleep"
    /\ time >= wft.wake
    /\ wft' = [wft EXCEPT !.pc = "acquire"]
    /\ UNCHANGED <<rlVars, kmVars>>

-----------------------------------------------------------------------------
(* main.py: lifespan, with ENABLE_HEALTH_CHECKER and ENABLE_METRICS set *)

\* the process before lifespan runs
LInit == lifespan = [pc |-> "start", processor |-> FALSE, metrics |-> FALSE]

\* the application after lifespan has yielded
LIdle == lifespan = [pc |-> "serving", processor |-> TRUE, metrics |-> TRUE]

\* lines 26-31: asyncio.create_task(start_queue_processor()), then
\* await health_checker.start() is suspended in the first probe of
\* initial_health_check; the created task runs and starts process_queue
LifespanStarts ==
    /\ lifespan.pc = "start"
    /\ lifespan' = [lifespan EXCEPT !.pc = "health_checker", !.processor = TRUE]

\* health_checker.start(): a probe of the sweep returns; after the last one
\* start() returns, metrics_service.start() runs without suspending
\* (lines 34-36) and lifespan yields
LifespanSweep(is_healthy) ==
    /\ lifespan.pc = "health_checker"
    /\ InitialHealthCheck(is_healthy)
    /\ lifespan' = IF hc_pc' \in DOMAIN _all_providers THEN lifespan
                   ELSE [lifespan EXCEPT !.pc = "serving", !.metrics = TRUE]

-----------------------------------------------------------------------------
(* utils/api_key_manager.py: APIKeyManager *)

NoKey == "none"

\* set(keys)
KeySet(keys) == {keys[i] : i \in DOMAIN keys}
Keys == UNION {KeySet(provider_keys[p]) : p \in DOMAIN provider_keys}

\* what the class defines: the attributes an APIKeyManager has
APIKeyManagerMethods ==
    {"_initialize", "_parse_keys", "get_next_key", "get_key_stats", "_mask_key",
     "add_key", "remove_key"}

\* line 100: the key has budget left in its window
WithinBudgetLoose(n) == n <= RATE_LIMIT_RPS
WithinBudget(n) == n < RATE_LIMIT_RPS

\* a cycle that starts at the first key whatever the cursor
NextKeyFromFirst(p) ==
    LET keys == provider_keys[p]
        free == {i \in DOMAIN keys :
                    WithinBudget(Len(Recent(key_timestamps[p][keys[i]], time)))}
    IN  IF free = {} THEN <<>>
        ELSE <<CHOOSE i \in free : \A j \in free : i <= j>>
\* lines 86-116: the position of the key one cycle from the cursor finds, <<>>
\* when every key is at its limit (the cursor is then where it was)
NextKey(p) ==
    LET keys == provider_keys[p]
        n == Len(keys)
        Pos(i) == ((current_key_index[p] - 1 + i) % n) + 1
        free == {i \in 0 .. n - 1 :
                    WithinBudget(Len(Recent(key_timestamps[p][keys[Pos(i)]], time)))}
    IN  IF free = {} THEN <<>>
        ELSE <<Pos(CHOOSE i \in free : \A j \in free : i <= j)>>

\* _initialize, and no call_api yet
KMInit ==
    /\ key_timestamps = [p \in DOMAIN provider_keys |-> [k \in KeySet(provider_keys[p]) |-> <<>>]]
    /\ current_key_index = [p \in DOMAIN provider_keys |-> 1]
    /\ key_usage = [p \in DOMAIN provider_keys |->
                        [k \in KeySet(provider_keys[p]) |-> [last_used |-> 0, count |-> 0]]]
    /\ key_op = [provider |-> NoProvider, key |-> NoKey, n |-> 0]
    /\ returned = [p \in DOMAIN provider_keys |-> [k \in KeySet(provider_keys[p]) |-> <<>>]]
    /\ call = [pc |-> "idle", provider |-> NoProvider, available |-> {}, tried_keys |-> {},
               api_key |-> NoKey, rate_limit_retry_count |-> 0, outcome |-> "none",
               marked |-> {}, n |-> 0, limited |-> NoKey]

\* every key of the configuration is valid
KMIdle ==
    /\ KMInit
    /\ answers = [k \in Keys |-> "ok"]

\* get_next_key(provider) returns a key: its window and the cursor are
\* updated. While no key has budget the caller sleeps and tries again
get_next_key(p) ==
    /\ NextKey(p) # <<>>
    /\ LET index == NextKey(p)[1]
           key == provider_keys[p][index]
       IN  /\ key_timestamps' = [key_timestamps EXCEPT
                                    ![p][key] = Append(Recent(@, time), time)]
           /\ key_usage' = [key_usage EXCEPT ![p][key] = [last_used |-> time,
                                                           count |-> @.count + 1]]
           /\ key_op' = [provider |-> p, key |-> key, n |-> 0]
           /\ current_key_index' = [current_key_index EXCEPT
                                        ![p] = (index % Len(provider_keys[p])) + 1]
           /\ returned' = [returned EXCEPT ![p][key] = Append(@, time)]
    /\ UNCHANGED <<rlVars, answers>>

\* get_next_key(provider) finds every key at its limit: the cycle moves the
\* cursor over all the keys, back to where it was, and the caller sleeps 100 ms
\* before the next cycle
GetNextKeyWaits(p) ==
    /\ NextKey(p) = <<>>
    /\ key_op.n < MaxCycles
    /\ key_op' = [provider |-> p, key |-> NoKey,
                  n |-> IF key_op.key = NoKey /\ key_op.provider = p THEN key_op.n + 1 ELSE 1]
    /\ current_key_index' =
           [current_key_index EXCEPT
               ![p] = ((@ - 1 + Len(provider_keys[p])) % Len(provider_keys[p])) + 1]
    /\ UNCHANGED <<rlVars, key_timestamps, key_usage, returned, answers, call>>

\* the key the get_next_key step of this moment returns
KeyReturned(p) == provider_keys[p][NextKey(p)[1]]

\* get_next_key called by another task than the modelled call_api
GetNextKey(p) ==
    /\ get_next_key(p)
    /\ UNCHANGED call

-----------------------------------------------------------------------------
(* services/llm/grok_api.py and openai_api.py: call_api, as process_queue_item
   calls it. A key is valid or not for good; a rate limit or another error is
   the answer to one request *)

\* process_queue_item calls call_api of the service of current_provider
CallApi ==
    /\ call.pc = "idle"
    /\ call.n < MaxCalls
    /\ call' = [call EXCEPT !.pc = "loop", !.provider = current_provider,
                            !.available = KeySet(provider_keys[current_provider]),
                            !.tried_keys = {}, !.api_key = NoKey,
                            !.rate_limit_retry_count = 0, !.outcome = "none",
                            !.n = @ + 1, !.limited = NoKey]
    /\ UNCHANGED <<rlVars, key_timestamps, current_key_index, key_usage, key_op, returned, answers>>

\* the condition of the while loop
KeysLeft(c) == c.available # {} /\ (c.tried_keys = {} \/ c.tried_keys # c.available)

\* top of the loop: get_next_key, and the key is skipped or the request is sent
CallNextKey ==
    /\ call.pc = "loop"
    /\ KeysLeft(call)
    /\ get_next_key(call.provider)
    /\ LET key == KeyReturned(call.provider)
       IN  call' = IF key \in call.tried_keys
                   THEN [call EXCEPT !.api_key = key]
                   ELSE [call EXCEPT !.api_key = key, !.tried_keys = @ \cup {key},
                                     !.pc = "calling", !.limited = NoKey]

\* the loop has ended: every key was tried
CallOutOfKeys ==
    /\ call.pc = "loop"
    /\ ~KeysLeft(call)
    /\ call' = IF call.tried_keys # {} /\ call.tried_keys = call.available
               THEN [call EXCEPT !.pc = "raised", !.outcome = "HTTPException"]
               ELSE [call EXCEPT !.pc = "returned", !.outcome = "None"]
    /\ UNCHANGED <<rlVars, key_timestamps, current_key_index, key_usage, key_op, returned, answers>>

\* the provider answers the request sent with api_key
BackendAnswers(answer) ==
    /\ call.pc = "calling"
    /\ answer \in {answers[call.api_key], "rate_limit", "error"}
    /\ call' =
         IF answer = "ok"
         THEN [call EXCEPT !.pc = "returned", !.outcome = "completed"]
         ELSE IF answer = "auth"
         THEN \* await self.key_manager.mark_key_invalid(...) in the except clause
              IF "mark_key_invalid" \in APIKeyManagerMethods
              THEN [call EXCEPT !.pc = "loop", !.marked = @ \cup {call.api_key}]
              ELSE [call EXCEPT !.pc = "raised", !.outcome = "AttributeError",
                                !.marked = @ \cup {call.api_key}]
         ELSE IF answer = "rate_limit"
         THEN IF call.rate_limit_retry_count + 1 <= MAX_RETRIES
              THEN [call EXCEPT !.pc = "loop", !.rate_limit_retry_count = @ + 1,
                                !.tried_keys = @ \ {call.api_key},
                                !.limited = call.api_key]
              ELSE [call EXCEPT !.pc = "loop", !.rate_limit_retry_count = @ + 1]
         ELSE [call EXCEPT !.pc = "raised", !.outcome = "error"]
    /\ UNCHANGED <<rlVars, key_timestamps, current_key_index, key_usage, key_op, returned, answers>>

\* process_queue_item, lines 81-94: report_success after call_api returned,
\* report_failure after it raised
CallEnds ==
    /\ call.pc \in {"returned", "raised"}
    /\ IF call.pc = "returned" THEN ReportSuccess(call.provider)
       ELSE ReportFailure(call.provider)
    /\ call' = [call EXCEPT !.pc = "idle"]
    /\ UNCHANGED <<rlVars, key_timestamps, current_key_index, key_usage, key_op, returned, answers>>

-----------------------------------------------------------------------------
(* FailoverManager._switch_to_next_available_provider where it is called, with
   FAILOVER_PROVIDERS = openai,claude,gemini,mistral *)

SeveralBackups == <<"openai", "claude", "gemini", "mistral">>
RotationProviders == {primary_provider} \cup {SeveralBackups[i] : i \in DOMAIN SeveralBackups}

\* _initialize
RInit ==
    rotation = [st |-> [p \in RotationProviders |-> [available |-> TRUE]],
                cur |-> primary_provider, mode |-> FALSE, ran |-> FALSE]

\* st after provider p was marked unavailable, and what the rotation returns
Rotated(st, cur, mode) ==
    LET sw == SwitchToNext(primary_provider, SeveralBackups, st, cur, mode)
    IN  [st |-> st, cur |-> sw.current_provider, mode |-> sw.in_failover_mode, ran |-> TRUE]

\* report_failure lines 162-167, and _check_provider_health lines 178-186: the
\* failure count of p has reached the threshold; p is marked unavailable, and
\* if it is the current provider the rotation runs
ThresholdFailure(p) ==
    /\ rotation.st[p].available
    /\ LET st == [rotation.st EXCEPT ![p].available = FALSE]
       IN  rotation' = IF p = rotation.cur
                       THEN Rotated(st, rotation.cur, rotation.mode)
                       ELSE [rotation EXCEPT !.st = st, !.ran = FALSE]

\* initial_health_check lines 85-111: every provider was probed (up: those
\* found healthy), and the rotation runs if the primary is not available
StartupSweep(up) ==
    LET st == [p \in RotationProviders |-> [available |-> p \in up]]
    IN  rotation' = IF ~st[primary_provider].available
                    THEN Rotated(st, rotation.cur, rotation.mode)
                    ELSE [rotation EXCEPT !.st = st, !.ran = FALSE]

\* a probe of the health checker passes on p, or reset_provider_status(p)
ProviderBack(p) ==
    /\ ~rotation.st[p].available
    /\ rotation' = [rotation EXCEPT !.st[p].available = TRUE, !.ran = FALSE]

\* POST /system/force-failover/{provider}
ForcedTo(p) ==
    rotation' = [rotation EXCEPT !.cur = p, !.mode = (p # primary_provider), !.ran = FALSE]

\* _check_provider_recovery lines 245-252: the recovered primary is current again
PrimaryBack ==
    /\ ~rotation.st[primary_provider].available
    /\ rotation' = [st |-> [rotation.st EXCEPT ![primary_provider].available = TRUE],
                    cur |-> IF rotation.mode THEN primary_provider ELSE rotation.cur,
                    mode |-> FALSE, ran |-> FALSE]

-----------------------------------------------------------------------------
(* The queue against a Redis server that always answers *)

NextQueueUp ==
    \/ TickQ /\ UNCHANGED <<fmVars, dVars, xVars>>
    \/ \E p \in PriorityInputs, x \in 0 .. MaxHex - 1 : Enqueue(p, x) /\ UNCHANGED <<fmVars, dVars, xVars>>
    \/ \E h \in held : PriorityEnqueue(h) /\ UNCHANGED <<fmVars, dVars, xVars>>
    \/ Dequeue /\ UNCHANGED <<fmVars, dVars, xVars>>
    \/ get_queue_length /\ UNCHANGED <<fmVars, dVars, xVars>>

FMIdle ==
    /\ FMInit
    /\ enable_failover
    /\ hc_pc = 0
    /\ watched = primary_provider

InitQueueUp == FMIdle /\ QInit /\ DInit /\ RLInit /\ KMIdle /\ RInit /\ WInit /\ LIdle /\ LWInit

SpecQueueUp == InitQueueUp /\ [][NextQueueUp]_vars

-----------------------------------------------------------------------------
(* The queue against a Redis server that comes and goes *)

NextQueue ==
    \/ TickQ /\ UNCHANGED <<fmVars, dVars, xVars>>
    \/ RedisFails /\ UNCHANGED <<fmVars, dVars, xVars>>
    \/ RedisRecovers /\ UNCHANGED <<fmVars, dVars, xVars>>
    \/ \E p \in PriorityInputs, x \in 0 .. MaxHex - 1 :
            Cardinality(issued) < MaxOutageItems /\ Enqueue(p, x) /\ UNCHANGED <<fmVars, dVars, xVars>>
    \/ \E h \in held : PriorityEnqueue(h) /\ UNCHANGED <<fmVars, dVars, xVars>>
    \/ Dequeue /\ UNCHANGED <<fmVars, dVars, xVars>>
    \/ get_queue_length /\ UNCHANGED <<fmVars, dVars, xVars>>
    \/ BackgroundSyncStart /\ UNCHANGED <<fmVars, dVars, xVars>>
    \/ BackgroundSyncPing /\ UNCHANGED <<fmVars, dVars, xVars>>
    \/ BackgroundSyncWrite /\ UNCHANGED <<fmVars, dVars, xVars>>
    \/ BackgroundSyncFinish /\ UNCHANGED <<fmVars, dVars, xVars>>

SpecQueue == InitQueueUp /\ [][NextQueue]_vars

-----------------------------------------------------------------------------
(* Every call of the queue, at one instant, against a Redis server that comes
   and goes; requests are submitted with the default priority *)

NextQueueCalls ==
    \/ RedisFails /\ UNCHANGED <<fmVars, dVars, xVars>>
    \/ RedisRecovers /\ UNCHANGED <<fmVars, dVars, xVars>>
    \/ \E x \in 0 .. MaxHex - 1 :
            Cardinality(issued) < MaxOutageItems /\ Enqueue(DefaultPriority, x) /\ UNCHANGED <<fmVars, dVars, xVars>>
    \/ \E h \in held : PriorityEnqueue(h) /\ UNCHANGED <<fmVars, dVars, xVars>>
    \/ Dequeue /\ UNCHANGED <<fmVars, dVars, xVars>>
    \/ get_queue_length /\ UNCHANGED <<fmVars, dVars, xVars>>
    \/ \E h \in held : StoreResponse(h.member.id, [status |-> "completed"]) /\ UNCHANGED <<fmVars, dVars, xVars>>
    \/ \E id \in issued, t \in BOOLEAN : GetResponse(id, t) /\ UNCHANGED <<fmVars, dVars, xVars>>
    \/ BackgroundSyncStart /\ UNCHANGED <<fmVars, dVars, xVars>>
    \/ BackgroundSyncPing /\ UNCHANGED <<fmVars, dVars, xVars>>
    \/ BackgroundSyncWrite /\ UNCHANGED <<fmVars, dVars, xVars>>
    \/ BackgroundSyncFinish /\ UNCHANGED <<fmVars, dVars, xVars>>

SpecQueueCalls == InitQueueUp /\ [][NextQueueCalls]_vars

-----------------------------------------------------------------------------
(* The responses of one request, against a Redis server that comes and goes *)

NextResponses ==
    \/ RedisFails /\ UNCHANGED <<fmVars, dVars, xVars>>
    \/ RedisRecovers /\ UNCHANGED <<fmVars, dVars, xVars>>
    \/ issued = {} /\ Enqueue(DefaultPriority, 0) /\ UNCHANGED <<fmVars, dVars, xVars>>
    \/ Dequeue /\ UNCHANGED <<fmVars, dVars, xVars>>
    \/ \E id \in issued, r \in Envelopes : StoreResponse(id, r) /\ UNCHANGED <<fmVars, dVars, xVars>>
    \/ \E id \in issued, t \in BOOLEAN : GetResponse(id, t) /\ UNCHANGED <<fmVars, dVars, xVars>>
    \/ \E id \in issued : ResponseExpires(id) /\ UNCHANGED <<fmVars, dVars, xVars>>
    \/ \E id \in issued : _cleanup_response(id) /\ UNCHANGED <<fmVars, dVars, xVars>>
    \/ BackgroundSyncStart /\ UNCHANGED <<fmVars, dVars, xVars>>
    \/ BackgroundSyncPing /\ UNCHANGED <<fmVars, dVars, xVars>>
    \/ BackgroundSyncWrite /\ UNCHANGED <<fmVars, dVars, xVars>>
    \/ BackgroundSyncFinish /\ UNCHANGED <<fmVars, dVars, xVars>>

SpecResponses == InitQueueUp /\ [][NextResponses]_vars

-----------------------------------------------------------------------------
(* The processor with the queue and the failover manager *)

NextProcessor ==
    \/ Submit /\ UNCHANGED <<fmVars, xVars>>
    \/ DispatcherDequeue /\ UNCHANGED <<fmVars, xVars>>
    \/ DispatcherDequeueTimeout /\ UNCHANGED <<fmVars, xVars>>
    \/ \E t \in tasks : StartAttempt(t) /\ UNCHANGED xVars
    \/ \E t \in tasks : ApiSuccess(t) /\ UNCHANGED xVars
    \/ \E t \in tasks : ApiFailure(t) /\ UNCHANGED xVars
    \/ \E t \in tasks : RequeueLands(t) /\ UNCHANGED xVars
    \/ \E t \in tasks : StoreLands(t) /\ UNCHANGED xVars
    \/ \E t \in tasks : TaskReturns(t) /\ UNCHANGED xVars
    \/ \E t \in tasks : Timeout(t) /\ UNCHANGED xVars
    \/ \E t \in tasks : TimeoutStore(t) /\ UNCHANGED xVars
    \/ RedisFails /\ UNCHANGED <<fmVars, dVars, xVars>>
    \/ RedisRecovers /\ UNCHANGED <<fmVars, dVars, xVars>>
    \/ BackgroundSyncStart /\ UNCHANGED <<fmVars, dVars, xVars>>
    \/ BackgroundSyncPing /\ UNCHANGED <<fmVars, dVars, xVars>>
    \/ BackgroundSyncWrite /\ UNCHANGED <<fmVars, dVars, xVars>>
    \/ BackgroundSyncFinish /\ UNCHANGED <<fmVars, dVars, xVars>>

SpecProcessor == InitQueueUp /\ [][NextProcessor]_vars

-----------------------------------------------------------------------------
(* The failover manager with the health checker and the manual routes *)

NextFM ==
    \/ Tick /\ UNCHANGED <<qVars, dVars, xVars>>
    \/ GetCurrentService /\ UNCHANGED <<qVars, dVars, xVars>>
    \/ \E h \in BOOLEAN : RecoveryProbeDone(h) /\ UNCHANGED <<qVars, dVars, xVars>>
    \/ RecoveryProbeTimeout /\ UNCHANGED <<qVars, dVars, xVars>>
    \/ GetCurrentServiceLockTimeout /\ UNCHANGED <<qVars, dVars, xVars>>
    \/ \E p \in Providers : ReportFailure(p) /\ UNCHANGED <<qVars, dVars, xVars>>
    \/ \E p \in Providers : ReportSuccess(p) /\ UNCHANGED <<qVars, dVars, xVars>>
    \/ \E h \in BOOLEAN : InitialHealthCheck(h) /\ UNCHANGED <<qVars, dVars, xVars>>
    \/ \E p \in Providers : CheckLoopProbe(p) /\ UNCHANGED <<qVars, dVars, xVars>>
    \/ \E h \in BOOLEAN : _check_provider_health(h) /\ UNCHANGED <<qVars, dVars, xVars>>
    \/ \E p \in RouteInputs : force_failover(p) /\ UNCHANGED <<qVars, dVars, xVars>>
    \/ \E p \in RouteInputs : reset_provider_status(p) /\ UNCHANGED <<qVars, dVars, xVars>>

InitFM == FMInit /\ QInit /\ DInit /\ RLInit /\ KMIdle /\ RInit /\ WInit /\ LIdle /\ LWInit

SpecFM == InitFM /\ [][NextFM]_vars

-----------------------------------------------------------------------------
(* The failover manager under traffic that does not stop: requests keep
   calling get_current_service and its probe returns, successful calls are
   reported, and _check_loop keeps probing. Failures and the manual routes may
   happen and need not *)

Elsewhere == UNCHANGED <<qVars, dVars, xVars>>

SpecFMLive ==
    /\ InitFM /\ [][NextFM]_vars
    /\ WF_vars(GetCurrentService /\ Elsewhere)
    /\ WF_vars((\E h \in BOOLEAN : RecoveryProbeDone(h)) /\ Elsewhere)
    /\ WF_vars((\E p \in Providers : ReportSuccess(p)) /\ Elsewhere)
    /\ WF_vars((\E h \in BOOLEAN : InitialHealthCheck(h)) /\ Elsewhere)
    /\ WF_vars((\E p \in Providers : CheckLoopProbe(p)) /\ Elsewhere)
    /\ WF_vars((\E h \in BOOLEAN : _check_provider_health(h)) /\ Elsewhere)

-----------------------------------------------------------------------------
(* The start of the process: lifespan, the start-up sweep, the dispatcher and
   its tasks; a request is in Redis from an earlier run of the gateway, or is
   submitted once the application serves *)

\* the failover manager as constructed, with the health checker about to sweep
FMStart ==
    /\ FMInit
    /\ enable_failover
    /\ hc_pc = 1
    /\ watched = primary_provider

InitLifespan == FMStart /\ QInit /\ DInit /\ RLInit /\ KMIdle /\ RInit /\ WInit /\ LInit /\ LWInit

NextLifespan ==
    \/ lifespan.pc \in {"start", "serving"} /\ Submit /\ UNCHANGED <<fmVars, xVars>>
    \/ LifespanStarts /\ UNCHANGED <<fmVars, qVars, dVars, rlVars, kmVars, rVars, wVars, lwVars>>
    \/ \E h \in BOOLEAN :
            LifespanSweep(h) /\ UNCHANGED <<qVars, dVars, rlVars, kmVars, rVars, wVars, lwVars>>
    \/ lifespan.processor /\ DispatcherDequeue /\ UNCHANGED <<fmVars, xVars>>
    \/ \E t \in tasks : StartAttempt(t) /\ UNCHANGED xVars
    \/ \E t \in tasks : ApiSuccess(t) /\ UNCHANGED xVars
    \/ \E t \in tasks : ApiFailure(t) /\ UNCHANGED xVars
    \/ \E t \in tasks : RequeueLands(t) /\ UNCHANGED xVars
    \/ \E t \in tasks : StoreLands(t) /\ UNCHANGED xVars
    \/ \E t \in tasks : TaskReturns(t) /\ UNCHANGED xVars

SpecLifespan == InitLifespan /\ [][NextLifespan]_vars

-----------------------------------------------------------------------------
(* the failover manager's lock, with the time a call waits for it *)

LockElsewhere == UNCHANGED <<qVars, dVars, rlVars, kmVars, rVars, wVars, lVars>>

NextLock ==
    \/ LockFree /\ LockElsewhere
    \/ LockTaken /\ LockElsewhere
    \/ \E op \in LockOps, p \in Providers : LockWaitStarts(op, p) /\ LockElsewhere
    \/ LockSecond /\ LockElsewhere
    \/ LockWaitTimeout /\ LockElsewhere
    \/ LockReleased /\ LockElsewhere
    \/ LockWaitEnds /\ LockElsewhere

SpecLock == InitFM /\ [][NextLock]_vars

\* the event loop runs what is ready: the probe ends or a deadline fires, a
\* wait_for that is overdue gives up, and a call that waits for the free lock
\* is woken
SpecLockLive ==
    /\ InitFM /\ [][NextLock]_vars
    /\ WF_vars(LockReleased /\ LockElsewhere)
    /\ WF_vars(LockWaitTimeout /\ LockElsewhere)
    /\ WF_vars(LockWaitEnds /\ LockElsewhere)

-----------------------------------------------------------------------------
(* The dispatcher loop paced by the token bucket *)

NextRateLimiter ==
    \/ TickTime /\ UNCHANGED <<fmVars, qVars, dVars, rVars, wVars, lVars, lwVars>>
    \/ WaitForToken /\ UNCHANGED <<fmVars, qVars, dVars, rVars, wVars, lVars, lwVars>>
    \/ \E got \in BOOLEAN : Dispatch(got) /\ UNCHANGED <<fmVars, qVars, dVars, rVars, wVars, lVars, lwVars>>

SpecRateLimiter == InitQueueUp /\ [][NextRateLimiter]_vars

-----------------------------------------------------------------------------
(* A caller of wait_for_token next to the dispatcher loop; the loop runs only
   where the caller is suspended or has returned *)

NextWaitForToken ==
    \/ TickTime /\ UNCHANGED <<fmVars, qVars, dVars, rVars, wVars, lVars, lwVars>>
    \/ \E m \in WaitInputs : WaitForTokenCalled(m) /\ UNCHANGED <<fmVars, qVars, dVars, rVars, lVars, lwVars>>
    \/ WaitForTokenAcquire /\ UNCHANGED <<fmVars, qVars, dVars, rVars, lVars, lwVars>>
    \/ \E later \in BOOLEAN : WaitForTokenDeadline(later) /\ UNCHANGED <<fmVars, qVars, dVars, rVars, lVars, lwVars>>
    \/ WaitForTokenWakes /\ UNCHANGED <<fmVars, qVars, dVars, rVars, lVars, lwVars>>
    \/ wft.pc \in {"idle", "sleep", "returned"} /\ WaitForToken
            /\ UNCHANGED <<fmVars, qVars, dVars, rVars, wVars, lVars, lwVars>>
    \/ \E got \in BOOLEAN : Dispatch(got) /\ UNCHANGED <<fmVars, qVars, dVars, rVars, wVars, lVars, lwVars>>

SpecWaitForToken == InitQueueUp /\ [][NextWaitForToken]_vars

-----------------------------------------------------------------------------
(* The key manager under concurrent get_next_key calls *)

NextKeys ==
    \/ TickTime /\ UNCHANGED <<fmVars, qVars, dVars, rVars, wVars, lVars, lwVars>>
    \/ \E p \in DOMAIN provider_keys : GetNextKey(p) /\ UNCHANGED <<fmVars, qVars, dVars, rVars, wVars, lVars, lwVars>>
    \/ \E p \in DOMAIN provider_keys : GetNextKeyWaits(p) /\ UNCHANGED <<fmVars, qVars, dVars, rVars, wVars, lVars, lwVars>>

SpecKeys == InitQueueUp /\ [][NextKeys]_vars

-----------------------------------------------------------------------------
(* The adapters' call_api, one call after the other, with the key manager and
   the failover manager the processor reports to *)

NextAdapter ==
    \/ TickTime /\ UNCHANGED <<fmVars, qVars, dVars, rVars, wVars, lVars, lwVars>>
    \/ CallApi /\ UNCHANGED <<fmVars, qVars, dVars, rVars, wVars, lVars, lwVars>>
    \/ CallNextKey /\ UNCHANGED <<fmVars, qVars, dVars, rVars, wVars, lVars, lwVars>>
    \/ CallOutOfKeys /\ UNCHANGED <<fmVars, qVars, dVars, rVars, wVars, lVars, lwVars>>
    \/ \E a \in {"ok", "auth", "rate_limit", "error"} :
            BackendAnswers(a) /\ UNCHANGED <<fmVars, qVars, dVars, rVars, wVars, lVars, lwVars>>
    \/ CallEnds /\ UNCHANGED <<qVars, dVars, rVars, wVars, lVars, lwVars>>

\* the keys of the configuration are valid or not
InitAdapter ==
    /\ FMIdle /\ QInit /\ DInit /\ RLInit /\ KMInit /\ RInit /\ WInit /\ LIdle /\ LWInit
    /\ answers \in [Keys -> {"ok", "auth"}]

SpecAdapter == InitAdapter /\ [][NextAdapter]_vars

-----------------------------------------------------------------------------
(* The rotation of the failover manager where it is called *)

NextRotation ==
    \/ \E p \in RotationProviders : ForcedTo(p) /\ UNCHANGED <<fmVars, qVars, dVars, rlVars, kmVars, wVars, lVars, lwVars>>
    \/ \E p \in RotationProviders : ThresholdFailure(p) /\ UNCHANGED <<fmVars, qVars, dVars, rlVars, kmVars, wVars, lVars, lwVars>>
    \/ \E up \in SUBSET RotationProviders : StartupSweep(up) /\ UNCHANGED <<fmVars, qVars, dVars, rlVars, kmVars, wVars, lVars, lwVars>>
    \/ \E p \in RotationProviders : ProviderBack(p) /\ UNCHANGED <<fmVars, qVars, dVars, rlVars, kmVars, wVars, lVars, lwVars>>
    \/ PrimaryBack /\ UNCHANGED <<fmVars, qVars, dVars, rlVars, kmVars, wVars, lVars, lwVars>>

SpecRotation == InitQueueUp /\ [][NextRotation]_vars

-----------------------------------------------------------------------------
(* Properties of the failover manager *)

\* C1: in every reachable state, current_provider # primary implies
\* in_failover_mode, and current_provider = primary implies ~in_failover_mode
C1_FailoverModeIffNotPrimary ==
    (current_provider # primary_provider) <=> in_failover_mode

-----------------------------------------------------------------------------
(* Properties of the queue *)

\* the bands of the dequeue order: an entry put by priority_enqueue, by enqueue
Retried(e) == e.via = "priority_enqueue"
Fresh(e) == e.via = "enqueue"

\* a fresh entry that is not after another in priority, then enqueue time
FreshOrder(a, b) ==
    \/ a.member.priority < b.member.priority
    \/ a.member.priority = b.member.priority /\ a.member.timestamp <= b.member.timestamp

\* C3: with Redis always reachable and the queue empty at first, a dequeue
\* returns None only from an empty queue, and otherwise returns an item that no
\* item left in the queue precedes: retried items first, then fresh items by
\* priority ascending, then by enqueue time ascending
C3_DequeueFollowsTotalOrder ==
    qOp.op = "dequeue" =>
        IF qOp.result = <<>> THEN redis_queue = {}
        ELSE \A e \in redis_queue :
                \/ Retried(qOp.result[1])
                \/ Fresh(qOp.result[1]) /\ Fresh(e) /\ FreshOrder(qOp.result[1], e)

\* C5: of two fresh items of the same priority, the one whose enqueue was
\* issued first is dequeued first, also when both fall in the same millisecond
C5_SamePriorityFifo ==
    (qOp.op = "dequeue" /\ qOp.result # <<>> /\ qOp.routed = "redis" /\ Fresh(qOp.result[1])) =>
        \A e \in redis_queue :
            (Fresh(e) /\ e.member.priority = qOp.result[1].member.priority)
                => qOp.result[1].seq < e.seq

\* the entries a dequeue left behind in the queue it was routed to
LeftBehind ==
    IF qOp.routed = "redis"
    THEN {[member |-> e.member, via |-> e.via, seq |-> e.seq] : e \in redis_queue}
    ELSE IF qOp.routed = "memory" /\ memory_queue # NoQueue
    THEN {memory_queue[1].queue[i] : i \in DOMAIN memory_queue[1].queue}
    ELSE {}

\* C4: in Redis and in the in-memory secondary alike, dequeue returns no fresh
\* item while a retried item is in the queue, and it returns retried items in
\* ascending order of their original enqueue timestamp
C4_RetriedFirstInEnqueueOrder ==
    (qOp.op = "dequeue" /\ qOp.result # <<>>) =>
        \A e \in LeftBehind :
            /\ Fresh(qOp.result[1]) => ~Retried(e)
            /\ (Retried(qOp.result[1]) /\ Retried(e))
                   => qOp.result[1].member.timestamp <= e.member.timestamp

\* C6: get_response returns the envelope the key was first stored with: a
\* second store_response of the same id changes nothing, in Redis and in the
\* in-memory secondary
C6_SecondStoreIsNoOp ==
    qOp.op = "get_response" =>
        /\ qOp.routed = "redis" =>
               \A r \in redis_responses : r.id = qOp.id => qOp.result = <<r.first>>
        /\ (qOp.routed = "memory" /\ memory_queue # NoQueue) =>
               \A r \in memory_queue[1].responses : r.id = qOp.id => qOp.result = <<r.first>>

\* the number of places a request is in: the sorted set, the secondary, the
\* secondary a background sync drains, the hands of the consumer
InSeq(q, id) == Cardinality({i \in DOMAIN q : q[i].member.id = id})
Copies(id) ==
    Cardinality({e \in redis_queue : e.member.id = id})
    + (IF memory_queue = NoQueue THEN 0 ELSE InSeq(memory_queue[1].queue, id))
    + InSeq(sync_item, id) + InSeq(sync_queue, id)
    + Cardinality({h \in held : h.member.id = id})

\* C9: whatever Redis does during the drain, the background sync loses and
\* duplicates nothing: every request is at all times in exactly one place, so
\* that after the sync each item of the secondary is once in Redis (or with
\* the consumer) and in no secondary
C9_SyncPreservesContent ==
    \A id \in issued : Copies(id) = 1

Queued(id) ==
    \/ \E e \in redis_queue : e.member.id = id
    \/ memory_queue # NoQueue /\ InSeq(memory_queue[1].queue, id) > 0
    \/ InSeq(sync_item, id) + InSeq(sync_queue, id) > 0

\* C7: over all the attempts of a request, with the 30-second timeout wrapper,
\* at most one envelope is stored for its id; and what a retry puts back in the
\* queue has the id of a submitted request
C7_AtMostOneStorePerRequest ==
    /\ \A id \in DOMAIN stores : stores[id] <= 1
    /\ \A e \in redis_queue : e.member.id \in issued

\* C8: a submitted request that has no envelope yet is in a queue or in a task,
\* so that each attempt ends with an envelope stored or the item put back;
\* without this no later step can store its envelope
C8_RequestNeverStranded ==
    \A id \in DOMAIN stores :
        \/ stores[id] >= 1
        \/ Queued(id)
        \/ \E t \in tasks : t.id = id

\* C11: once Redis is reachable again and stays so, the queue leaves degraded
\* mode with every item in Redis. So, with Redis reachable, the queue is never
\* where no later step ends the degradation while Redis stays reachable: a
\* secondary with no background sync task, or a background sync task that
\* finds no secondary and loops on without ending, or an item lost on the way
C11_RecoveryEndsDegradation ==
    redis_up =>
        /\ ~(memory_queue # NoQueue /\ ~background_ping)
        /\ ~(memory_queue = NoQueue /\ background_ping /\ bs_pc = "loop")
        /\ \A id \in issued : Copies(id) >= 1

\* C12: a get_response(id) that follows store_response(id, R), with no other
\* call of the queue and no expiry in between, returns the text of R, whether
\* Redis went away or came back between the two calls or not
C12_GetReturnsStored ==
    [][(qOp.op = "store_response" /\ qOp'.op = "get_response" /\ qOp'.id = qOp.id)
        => (qOp'.result # <<>> /\ json_loads(qOp'.result[1]) = json_loads(qOp.value))]_vars

-----------------------------------------------------------------------------
(* Properties of the rate limiter and the key manager *)

\* the dispatches less than a second back
WithinLastSecond == SelectSeq(dispatches, LAMBDA ts : time - ts < TicksPerSec)

C14_KeyReturnsPerSecond ==
    \A p \in DOMAIN returned : \A k \in DOMAIN returned[p] :
        Len(returned[p][k]) <= RATE_LIMIT_RPS

\* a key was returned RATE_LIMIT_RPS times, the first of them a second ago,
\* and the cursor went past it to the next key
C14_Witness ==
    /\ Len(returned["grok"]["K1"]) = RATE_LIMIT_RPS
    /\ returned["grok"]["K1"][1] + TicksPerSec = time
    /\ returned["grok"]["K2"] # <<>>
    /\ returned["grok"]["K2"][Len(returned["grok"]["K2"])] = time
\* C15: a key the adapter has called mark_key_invalid for, after an
\* authentication failure, is never returned by a later get_next_key (no later
\* step appends to its window)
C15_InvalidKeyNeverReturned ==
    [][\A p \in DOMAIN provider_keys : \A k \in KeySet(provider_keys[p]) \cap call.marked :
            key_timestamps'[p][k] = key_timestamps[p][k]]_vars

\* C16: with the pool <<K1, K2>>, K1 answering with an authentication failure
\* and K2 valid, the first request ends completed through the same provider and
\* no failure of the provider is reported to the failover manager
C16_AuthRotatesToNextKey ==
    (/\ call.n = 1 /\ call.pc = "idle"
     /\ call.provider = "grok" /\ provider_keys["grok"] = <<"K1", "K2">>
     /\ answers["K1"] = "auth" /\ answers["K2"] = "ok"
     /\ "K1" \in call.marked)
    => (call.outcome = "completed" /\ failure_counts["grok"] = 0)
\* C17: after the rotation ran, current_provider is the primary if the primary
\* is available, otherwise the first available backup in declared order,
\* otherwise the primary
C17_RotationChoice ==
    rotation.ran =>
        rotation.cur =
            IF rotation.st[primary_provider].available THEN primary_provider
            ELSE IF \E i \in DOMAIN SeveralBackups : rotation.st[SeveralBackups[i]].available
            THEN SeveralBackups[CHOOSE i \in DOMAIN SeveralBackups :
                                    /\ rotation.st[SeveralBackups[i]].available
                                    /\ \A j \in 1 .. i - 1 : ~rotation.st[SeveralBackups[j]].available]
            ELSE primary_provider

\* the rotation passed over the primary and the first backup and chose the
\* second backup, with the third available as well
C17_Witness ==
    /\ rotation.ran
    /\ ~rotation.st[primary_provider].available
    /\ ~rotation.st[SeveralBackups[1]].available
    /\ rotation.st[SeveralBackups[2]].available
    /\ rotation.st[SeveralBackups[3]].available
    /\ rotation.cur = SeveralBackups[2]
\* a step that is a get_current_service call arriving at the lock
GcsCalled ==
    /\ fmOp'.op = "get_current_service"
    /\ fmOp'.outcome \in {"returned", "probe_started", "lock_timeout"}
    /\ (fmOp' # fmOp \/ lock' # lock)

\* in failover mode, the primary unavailable and last checked more than
\* recovery_time ago
PrimaryProbeDue ==
    /\ in_failover_mode
    /\ ~provider_statuses[primary_provider].available
    /\ clock - provider_statuses[primary_provider].last_check > recovery_time

\* the recovery probe of get_current_service ends with this outcome
ProbeEnds(outcome) ==
    gcs_pc = "probing" /\ gcs_pc' = "idle" /\ fmOp'.outcome = outcome

\* a passed probe leaves the primary available with no failures, the manager
\* in normal mode on the primary, and the call returns the primary's service
PassedProbeEffect ==
    ProbeEnds("probe_passed") =>
        /\ provider_statuses'[primary_provider].available
        /\ failure_counts'[primary_provider] = 0
        /\ ~in_failover_mode'
        /\ current_provider' = primary_provider
        /\ fmOp'.service = primary_provider

\* a failed probe changes last_check of the primary and nothing else of the
\* manager's state
FailedProbeEffect ==
    ProbeEnds("probe_failed") =>
        /\ provider_statuses'[primary_provider].last_check = clock
        /\ \A p \in Providers :
              /\ provider_statuses'[p].available = provider_statuses[p].available
              /\ p # primary_provider =>
                    provider_statuses'[p].last_check = provider_statuses[p].last_check
        /\ UNCHANGED <<current_provider, in_failover_mode, failure_counts>>

C19_LockTimeoutChangesNothing ==
    [][(fmOp'.op = "get_current_service" /\ fmOp'.outcome = "lock_timeout" /\ fmOp' # fmOp)
        => /\ fmOp'.service = current_provider
           /\ UNCHANGED <<current_provider, in_failover_mode, provider_statuses, failure_counts>>]_vars

\* a call gave up on the lock while the primary's probe of another call was
\* under way and due
C19_Witness ==
    /\ fmOp.op = "get_current_service"
    /\ fmOp.outcome = "lock_timeout"
    /\ fmOp.service = current_provider
    /\ lock /\ gcs_pc = "probing"
    /\ in_failover_mode
    /\ clock - provider_statuses[primary_provider].last_check > recovery_time
\* the text stored under id where get_response reads after the step
StoredAfter(id) ==
    IF memory_queue' # NoQueue THEN Get(memory_queue'[1].responses, id)
    ELSE Get(redis_responses', id)

\* the step is a priority_enqueue of the item of request id
Requeues(id) ==
    /\ qOp'.op = "priority_enqueue"
    /\ \E h \in held : h.member.id = id /\ h \notin held'

\* request id has the timeout envelope
TimedOut(id) ==
    \/ Get(redis_responses, id) = <<json_dumps(TimeoutErrorResponse)>>
    \/ memory_queue # NoQueue
         /\ Get(memory_queue[1].responses, id) = <<json_dumps(TimeoutErrorResponse)>>

\* C20: when process_queue_item does not finish within the 30 seconds it is
\* cancelled, the envelope with status error and type timeout_error is stored
\* under the id of the item, and the item is not put back in the queue afterwards
C20_TimeoutStoresAndEnds ==
    [][/\ \A t \in tasks :
            (t.pc = "timeout" /\ t \notin tasks')
                => StoredAfter(t.id) = <<json_dumps(TimeoutErrorResponse)>>
       /\ \A id \in issued : TimedOut(id) => ~Requeues(id)]_vars

-----------------------------------------------------------------------------
(* Properties of the manual routes *)

\* a step that is a call of the route op with the provider name p
RouteCalled(op, p) ==
    fmOp'.op = op /\ fmOp'.provider = p /\ fmOp' # fmOp

\* C21: force_failover and reset_provider_status called with a provider name
\* that is neither the primary nor a configured backup answer with status 400
\* and leave the failover manager's state as it was
C21_UnknownProviderIsBadRequest ==
    [][\A op \in {"force_failover", "reset_provider_status"} :
          \A p \in RouteInputs \ Providers :
              RouteCalled(op, p) =>
                  /\ fmOp'.status = BadRequest
                  /\ UNCHANGED <<current_provider, in_failover_mode, provider_statuses,
                                 failure_counts>>]_vars

\* C22: force_failover(p) for a configured p sets current_provider = p and
\* in_failover_mode = (p # primary) and changes no available flag and no
\* failure count; reset_provider_status(p) sets available(p) and zeroes
\* failure_counts[p] and changes neither current_provider, in_failover_mode
\* nor another provider's status or count
C22_ManualOperationsFrame ==
    [][\A p \in Providers :
          /\ RouteCalled("force_failover", p) =>
                /\ current_provider' = p
                /\ in_failover_mode' = (p # primary_provider)
                /\ \A q \in Providers :
                      provider_statuses'[q].available = provider_statuses[q].available
                /\ failure_counts' = failure_counts
          /\ RouteCalled("reset_provider_status", p) =>
                /\ provider_statuses'[p].available
                /\ failure_counts'[p] = 0
                /\ UNCHANGED <<current_provider, in_failover_mode>>
                /\ \A q \in Providers \ {p} :
                      /\ provider_statuses'[q] = provider_statuses[q]
                      /\ failure_counts'[q] = failure_counts[q]]_vars

\* the manager was switched by hand to a backup that is marked unavailable and
\* has failures counted
C22_Witness ==
    /\ fmOp.op = "force_failover"
    /\ fmOp.outcome = "done"
    /\ fmOp.provider = failover_providers[1]
    /\ current_provider = failover_providers[1]
    /\ in_failover_mode
    /\ ~provider_statuses[failover_providers[1]].available
    /\ failure_counts[failover_providers[1]] >= threshold

-----------------------------------------------------------------------------
(* Properties of wait_for_token *)

\* C23: wait_for_token with max_wait_time = 0 returns without sleeping, True
\* if its acquire found a token (which it consumed) and False otherwise
C23_ZeroDeadlineReturnsAtOnce ==
    (wft.pc # "idle" /\ wft.max_wait_time = 0) =>
        /\ ~wft.slept
        /\ wft.pc = "returned" => wft.result = (IF wft.had THEN "true" ELSE "false")

-----------------------------------------------------------------------------
(* Properties of the start of the process *)

\* C24: the dispatcher creates no task for a dequeued request before the
\* metrics service has been started and the start-up sweep of the health
\* checker has probed every provider
C24_NoDispatchBeforeStartup ==
    [][(\E t \in tasks' : t \notin tasks /\ t.pc = "start")
            => (lifespan.metrics /\ hc_pc \notin DOMAIN _all_providers)]_vars

-----------------------------------------------------------------------------
(* Properties of the queue's degradation and reconciliation *)

\* an entry _background_sync wrote back into the sorted set
Reconciled(e) == e.via = "sync"

\* a step in which dequeue takes an item out of the sorted set
DequeuedFromRedis ==
    /\ qOp'.op = "dequeue" /\ qOp'.result # <<>> /\ qOp'.routed = "redis"
    /\ held' # held

\* C25: a dequeue from Redis returns no reconciled item while a retried item is
\* in the sorted set, and no fresh item, of whatever priority, while a
\* reconciled item is in it
C25_ReconciledBetweenBands ==
    [][DequeuedFromRedis =>
          \A e \in redis_queue' :
              /\ Reconciled(qOp'.result[1]) => ~Retried(e)
              /\ Fresh(qOp'.result[1]) => ~Reconciled(e)]_vars

\* a step in which dequeue takes an item out of the in-memory secondary
DequeuedFromMemory ==
    /\ qOp'.op = "dequeue" /\ qOp'.result # <<>> /\ qOp'.routed = "memory"
    /\ held' # held

\* C26: while the queue is degraded, dequeue returns fresh items by the
\* priority they were enqueued with, ascending, and then by enqueue time: it
\* returns no fresh item while the secondary holds a fresh item of a smaller
\* priority number, or of the same priority and an earlier timestamp
C26_SecondaryFollowsPriority ==
    [][(DequeuedFromMemory /\ Fresh(qOp'.result[1])) =>
          \A i \in DOMAIN memory_queue'[1].queue :
              LET e == memory_queue'[1].queue[i]
                  r == qOp'.result[1]
              IN  Fresh(e) =>
                      \/ r.asked < e.asked
                      \/ r.asked = e.asked /\ r.member.timestamp <= e.member.timestamp]_vars

\* C27: a store_response that finds Redis unreachable, and so makes the queue
\* fall back to the in-memory secondary, leaves its envelope stored in the
\* secondary, where get_response finds it
C27_FallbackStoreKeepsEnvelope ==
    [][(qOp'.op = "store_response" /\ qOp'.routed = "fallback" /\ qOp' # qOp) =>
          /\ memory_queue' # NoQueue
          /\ Get(memory_queue'[1].responses, qOp'.id) = <<qOp'.value>>]_vars

-----------------------------------------------------------------------------
(* Properties of the recovery of the primary *)

\* a probe of the primary has passed and left the manager in failover mode
\* with the primary available
PrimaryPassedInFailover ==
    /\ fmOp.outcome = "probe_passed"
    /\ fmOp.provider = primary_provider
    /\ in_failover_mode
    /\ provider_statuses[primary_provider].available

\* C28: a probe pass on the primary in failover mode leads back to normal
\* mode on the primary, unless the primary is marked unavailable again
C28_PrimaryPassLeadsToNormal ==
    PrimaryPassedInFailover ~>
        \/ ~in_failover_mode /\ current_provider = primary_provider
        \/ ~provider_statuses[primary_provider].available

-----------------------------------------------------------------------------
(* Properties of the failover manager's lock *)

\* the state the failover manager's lock protects
Protected == <<current_provider, in_failover_mode, provider_statuses, failure_counts>>

\* C29: while the health check of a recovery probe is outstanding, the
\* failover manager's lock is not held
C29_ProbeOutsideLock ==
    gcs_pc = "probing" => ~lock

\* C30: while a get_current_service call holds the lock across its probe, no
\* other writer changes current_provider, in_failover_mode, a provider's
\* available flag or last_check, or a failure count
C30_NoWriteInsideCriticalSection ==
    [][(lock /\ gcs_pc = "probing" /\ gcs_pc' = "probing") => UNCHANGED Protected]_vars
-----------------------------------------------------------------------------
(* Properties of the waits for the failover manager's lock *)

\* C31: every acquisition of the failover manager's lock is deadlined: a call of
\* get_current_service, report_failure or report_success that waits for the
\* lock has waited at most 2 seconds
C31_LockWaitIsDeadlined ==
    lockwait.op \in LockOps => lockwait.waited <= GcsLockTimeout

-----------------------------------------------------------------------------
(* Properties of the end of a failed attempt *)

\* the attempt of task t has failed and report_failure has returned: the task
\* is about to put the item back or to store the error envelope
FailedAttempt(t) ==
    \/ t.pc = "requeueing"
    \/ t.pc = "storing" /\ t.envelope = <<ErrorResponse>>

\* the step stores the error envelope of request id
StoresError(id) ==
    /\ qOp'.op = "store_response"
    /\ StoredAfter(id) = <<json_dumps(ErrorResponse)>>

\* the 30-second wrapper cancels the task of request id in this step
Cancelled(id) == \E u \in tasks' \ tasks : u.id = id /\ u.pc = "timeout"

\* C32: after a failed attempt and its report_failure, the next step of the
\* task (one that the 30-second wrapper does not cancel) does exactly one of
\* the two: it puts the item back with priority_enqueue, the retry count
\* incremented and the provider among the tried ones, or it stores the error
\* envelope
C32_FailedAttemptRequeuesOrStores ==
    [][\A t \in tasks :
            (FailedAttempt(t) /\ t \notin tasks' /\ ~Cancelled(t.id))
                => /\ Requeues(t.id) # StoresError(t.id)
                   /\ Requeues(t.id) =>
                          /\ t.pc = "requeueing"
                          /\ HeldOf(t.id).member.retry_count = t.attempt + 1
                          /\ InList(t.provider, HeldOf(t.id).member.tried_providers)]_vars

-----------------------------------------------------------------------------
(* Properties of the providers an item was tried on *)

\* no element of the list occurs twice
NoDuplicates(list) == \A i, j \in DOMAIN list : list[i] = list[j] => i = j

\* C33: no request is invoked twice on the same provider: the tried_providers
\* of an attempt, and of an item that was given them, never hold a provider
\* more than once, whatever the health checks do between its attempts
C33_TriedProvidersDistinct ==
    /\ \A t \in tasks : NoDuplicates(t.tried)
    /\ \A h \in held : NoDuplicates(Field(h.member, "tried_providers", <<>>))

-----------------------------------------------------------------------------
(* Properties of the model of a dispatched request *)

\* the entries of request id, wherever they are
EntriesOf(id) ==
    {e \in redis_queue \cup held : e.member.id = id}
    \cup (IF memory_queue = NoQueue THEN {}
          ELSE {memory_queue[1].queue[i] : i \in {j \in DOMAIN memory_queue[1].queue :
                                                    memory_queue[1].queue[j].member.id = id}})

\* the original_provider the entries of request id carry
OriginalProviders(id) ==
    {e.member.original_provider :
        e \in {x \in EntriesOf(id) : "original_provider" \in DOMAIN x.member}}

\* the request data handed to call_api_with_metrics has the provider's default
\* model on another provider than original_provider, the submitted one on it
ModelFollowsProvider ==
    \A t \in tasks :
        t.pc = "calling" =>
            LET item == HeldOf(t.id).member
            IN  /\ "original_provider" \in DOMAIN item
                /\ t.provider # item.original_provider => t.model = default_model(t.provider)
                /\ t.provider = item.original_provider => t.model = ChatData.model
                /\ item.data = ChatData

-----------------------------------------------------------------------------
(* Properties of the adapter's retries after a rate limit *)

\* the step sends a request to the provider
RequestSent == call.pc = "loop" /\ call'.pc = "calling"

\* C35: after the provider answered a request with a rate limit and the retry
\* budget MAX_RETRIES is not used up, the retry is sent with the key that was
\* rate-limited, not with another key of the pool
C35_RateLimitRetrySameKey ==
    [][(RequestSent /\ call.limited # NoKey) => call'.api_key = call.limited]_vars

-----------------------------------------------------------------------------
(* Properties of get_next_key's rotation *)

\* the step is a cycle of get_next_key(p) that returns key k, that finds no key
KeyStep(p, k) == key_op' # key_op /\ key_op'.provider = p /\ key_op'.key = k

\* the 1-second window of key k holds RATE_LIMIT_RPS timestamps
AtLimit(p, k) == Len(Recent(key_timestamps[p][k], time)) >= RATE_LIMIT_RPS

\* the positions of a cycle from the cursor up to the one before position i
Before(p, i) ==
    LET n == Len(provider_keys[p])
    IN  {j \in 1 .. n : (j - current_key_index[p]) % n < (i - current_key_index[p]) % n}

\* key x is left as it was
KeyUntouched(p, x) ==
    /\ key_timestamps'[p][x] = key_timestamps[p][x]
    /\ key_usage'[p][x] = key_usage[p][x]

\* C36: get_next_key is round-robin: it returns the first key from the cursor,
\* in declared order, that has budget (so n calls with budget everywhere return
\* each of the n keys once, in order from the cursor), the returned key's count
\* grows by exactly 1 and its window by the time of the call, the cursor moves
\* past it, and every key at its limit is skipped with its window and its count
\* unchanged
C36_RoundRobin ==
    [][\A p \in DOMAIN provider_keys :
        /\ \A i \in DOMAIN provider_keys[p] :
            LET keys == provider_keys[p]
                k == keys[i]
            IN  KeyStep(p, k) =>
                    /\ ~AtLimit(p, k)
                    /\ \A j \in Before(p, i) : AtLimit(p, keys[j])
                    /\ key_usage'[p][k].count = key_usage[p][k].count + 1
                    /\ key_timestamps'[p][k] = Append(Recent(key_timestamps[p][k], time), time)
                    /\ current_key_index'[p] = (i % Len(keys)) + 1
                    /\ \A x \in KeySet(keys) \ {k} : KeyUntouched(p, x)
        /\ KeyStep(p, NoKey) =>
                \A x \in KeySet(provider_keys[p]) : AtLimit(p, x) /\ KeyUntouched(p, x)]_vars

\* a cycle has skipped every key of grok at its limit, after the two keys were
\* returned in turn
C36_Witness ==
    /\ key_op = [provider |-> "grok", key |-> NoKey, n |-> 1]
    /\ key_usage["grok"]["K1"].count = RATE_LIMIT_RPS
    /\ key_usage["grok"]["K2"].count = RATE_LIMIT_RPS

-----------------------------------------------------------------------------
(* Properties of the background sync task *)

\* C37: in degraded mode a background sync task is alive: whenever
\* self.memory_queue is not None, self.background_ping is a task and that task
\* has not returned, also when the secondary was created while an earlier
\* secondary was being drained
C37_DegradedHasSyncTask ==
    memory_queue # NoQueue => (background_ping /\ bs_pc # "none")

-----------------------------------------------------------------------------
(* Properties of the dispatcher's dequeue *)

\* the ids of the items in the sorted set
RedisIds(q) == {e.member.id : e \in q}

\* C38: an item that a dequeue removes from the sorted set is handed to a new
\* process_queue_item task in the same step: the 2-second deadline around
\* dequeue never discards an item that was popped
C38_PoppedItemIsProcessed ==
    [][\A id \in RedisIds(redis_queue) \ RedisIds(redis_queue') :
            /\ \E h \in held' : h.member.id = id
            /\ \E t \in tasks' \ tasks : t.id = id /\ t.pc = "start"]_vars

-----------------------------------------------------------------------------
(* Properties of the failure counts *)

\* C39: after every completed operation of the failover manager, of the health
\* checker and of the manual routes, a provider that is marked available has a
\* failure count below the threshold
C39_AvailableBelowThreshold ==
    \A p \in Providers : provider_statuses[p].available => failure_counts[p] < threshold

\* a counted report_failure left a provider available one failure below the
\* threshold while another provider is unavailable at the threshold
C39_Witness ==
    /\ fmOp.op = "report_failure" /\ fmOp.outcome = "counted"
    /\ provider_statuses[fmOp.provider].available
    /\ failure_counts[fmOp.provider] = threshold - 1
    /\ \E q \in Providers : ~provider_statuses[q].available /\ failure_counts[q] >= threshold

-----------------------------------------------------------------------------
(* Properties of the hold of the failover manager's lock *)

\* the lock is held only by a get_current_service call that is in its probe
LockHeldByCall == lock => gcs_pc = "probing"

\* C40: the lock is never leaked: it is held only while a call that took it is
\* in progress, also after a lock timeout, after the 3-second timeout during a
\* recovery probe and after a cancellation; so every call that waits for the
\* lock eventually stops waiting
C40_LockNeverLeaked ==
    /\ []LockHeldByCall
    /\ (lockwait.op \in LockOps) ~> (lockwait.op = "none")

\* the 3-second timeout has ended the probe while report_success waited: the
\* lock is free and the call that waited is about to take it
C40_Witness ==
    /\ fmOp.op = "get_current_service" /\ fmOp.outcome = "timeout"
    /\ ~lock
    /\ lockwait.op = "report_success"
    /\ lockwait.waited = GcsTimeout

====
